---- MODULE Spec2Model ----
(***************************************************************************)
(* app-attest-server: the attestation store (table `attestations`), the    *)
(* nonce oracle, registerAttestation and validateAssertion, as a state     *)
(* machine.  Every store query is one atomic step; a handler is split at   *)
(* its awaits on the store: the step that runs its SELECT also runs the    *)
(* synchronous code before the SELECT and up to the next await (that code  *)
(* touches only the call's own locals), the step that runs its UPDATE also *)
(* returns.                                                                *)
(***************************************************************************)
EXTENDS Integers, Sequences, FiniteSets, TLC

(***************************************************************************)
(* Bounds of the model.                                                    *)
(***************************************************************************)
MaxCounter == 2          \* largest authenticator counter an envelope carries
MaxNonce == 2            \* number of challenges the nonce oracle may issue
Now0 == 1700000000       \* the clock (Unix seconds) of the modelled moment

Slots == {1, 2}          \* concurrent handler invocations
Keys == {"k1", "k2"}     \* Secure Enclave key pairs that exist

(***************************************************************************)
(* Strings.  Header values are TLA+ strings; TLC gives their length, and   *)
(* the character classes of the strings the model uses are tabulated.      *)
(***************************************************************************)
DeviceA == "device-A"
DeviceB == "device-B"
ShortDevice == "dev-C"
\* 64 and 65 characters
LongDevice == "dddddddd-AAAAAAAAAAAAAAAAAAAAAAAAAAAAAAAAAAAAAAAAAAAAAAAAAAAAAAA"
TooLongDevice == "dddddddd-AAAAAAAAAAAAAAAAAAAAAAAAAAAAAAAAAAAAAAAAAAAAAAAAAAAAAAAA"
\* eight characters, one of them not allowed
BadCharDevice == "device_A"
TeamId == "ABCDE12345"
BundleId == "com.example.app"
OtherBundleId == "com.other.app"
KeyIdOf(k) ==
  IF k = "k1" THEN "azFBQUFBQUFBQUFBQUFBQUFBQUFBQUFBQUFBQUFBQUE="
  ELSE "azJBQUFBQUFBQUFBQUFBQUFBQUFBQUFBQUFBQUFBQUE="
ShortKeyId == "azM="
PemOf(k) == "PEM:" \o k
NULL == "NULL"

Alnum == {"lower", "upper", "digit"}
\* the character classes occurring in a string ("pad" is a run of at most two
\* '=' at the end of the string)
CharsOf(s) ==
  CASE s \in {DeviceA, DeviceB, ShortDevice, LongDevice, TooLongDevice}
         -> {"lower", "upper", "hyphen"}
    [] s \in {KeyIdOf(k) : k \in Keys} \cup {ShortKeyId} -> {"lower", "upper", "digit", "pad"}
    [] s \in {"user-id"} -> {"lower", "hyphen"}
    [] OTHER -> {"lower", "upper", "digit", "other"}

(***************************************************************************)
(* InputValidator.                                                         *)
(***************************************************************************)
Base64Chars == Alnum \cup {"plus", "slash", "pad"}

\* /^[A-Za-z0-9+/]*={0,2}$/ on a string of minLength..maxLength characters
isValidBase64(input, minLength, maxLength) ==
  /\ Len(input) >= minLength
  /\ Len(input) <= maxLength
  /\ CharsOf(input) \subseteq Base64Chars

isValidDeviceId_NoMinimum(deviceId) ==
  /\ CharsOf(deviceId) \subseteq Alnum \cup {"hyphen"}
  /\ Len(deviceId) <= 64

\* /^[a-zA-Z0-9-]{8,64}$/
isValidDeviceId(deviceId) ==
  /\ CharsOf(deviceId) \subseteq Alnum \cup {"hyphen"}
  /\ Len(deviceId) >= 8
  /\ Len(deviceId) <= 64

isValidKeyId(keyId) == isValidBase64(keyId, 40, 48)

\* A nonce header is described by its form (what characters it is made of), its
\* length and, for a string of at most ten digits, the number it spells.  A
\* string of eleven or more digits spells a number above every clock value.
\* A nonce header: its form ("digits": decimal digits only; "base64": base64
\* characters that spell no number), its length, and the number a string of
\* digits spells.
TimestampNonce(t) == [form |-> "digits", len |-> 10, num |-> t]
\* t written with sixteen digits (leading zeros)
PaddedNonce(t) == [form |-> "digits", len |-> 16, num |-> t]
Base64Nonce == [form |-> "base64", len |-> 44, num |-> 0]

isValidNonce(nonce, clock) ==
  \/ nonce.form \in {"digits", "base64"} /\ nonce.len >= 16 /\ nonce.len <= 64
  \/ /\ nonce.form = "digits"
     /\ nonce.len >= 10
     /\ nonce.len <= 13
     /\ nonce.num > clock - 300
     /\ nonce.num < clock + 60

\* the header names a semicolon-separated assertion-inputs value lists
NamesIn(assertionInputs) ==
  CASE assertionInputs = "user-id" -> <<"user-id">>
    [] OTHER -> <<assertionInputs>>

isValidAssertionInputs(assertionInputs) ==
  LET headerNames == NamesIn(assertionInputs) IN
  /\ Len(headerNames) <= 20
  /\ \A i \in 1..Len(headerNames) :
       /\ Len(headerNames[i]) >= 1
       /\ Len(headerNames[i]) <= 50
       /\ CharsOf(headerNames[i]) \subseteq {"lower", "digit", "hyphen"}

\* the signature header: "cbor" and "junk" are base64 text, "notb64" is not
isValidSignature(signature) == signature.enc # "notb64"

Has(headers, name) == name \in DOMAIN headers

validateHeaders(headers, clock) ==
  LET errors ==
        (IF ~Has(headers, "device-id")
           THEN <<"Missing required header: device-id">> ELSE <<>>)
        \o (IF Has(headers, "device-id") /\ ~isValidDeviceId(headers["device-id"])
           THEN <<"Invalid device-id format">> ELSE <<>>)
        \o (IF Has(headers, "key-id") /\ ~isValidKeyId(headers["key-id"])
           THEN <<"Invalid key-id format">> ELSE <<>>)
        \o (IF Has(headers, "nonce") /\ ~isValidNonce(headers["nonce"], clock)
           THEN <<"Invalid nonce format">> ELSE <<>>)
        \o (IF Has(headers, "signature") /\ ~isValidSignature(headers["signature"])
           THEN <<"Invalid signature format">> ELSE <<>>)
        \o (IF Has(headers, "assertion-inputs")
              /\ ~isValidAssertionInputs(headers["assertion-inputs"])
           THEN <<"Invalid assertion-inputs format">> ELSE <<>>)
  IN [isValid |-> errors = <<>>, errors |-> errors]

validateAttestationBody(body) ==
  LET errors ==
        (IF ~Has(body, "keyId") THEN <<"Missing required field: keyId">>
         ELSE IF ~isValidKeyId(body["keyId"]) THEN <<"Invalid keyId format">>
         ELSE <<>>)
        \o (IF ~Has(body, "attestationObject")
              THEN <<"Missing required field: attestationObject">>
            ELSE IF ~(body["attestationObject"].len >= 100
                      /\ body["attestationObject"].len <= 10000
                      /\ body["attestationObject"].enc # "notb64")
              THEN <<"Invalid attestationObject format">>
            ELSE <<>>)
  IN [isValid |-> errors = <<>>, errors |-> errors]

\* errors.join(', ')
RECURSIVE Join(_)
Join(errors) ==
  IF errors = <<>> THEN ""
  ELSE IF Len(errors) = 1 THEN errors[1]
  ELSE errors[1] \o ", " \o Join(Tail(errors))

\* sanitizeInput keeps a string that is short enough and made of allowed
\* characters as it is; any other string comes back shortened or stripped,
\* which the model writes as a string that differs from the input.
sanitizeInput(input, maxLength, allowedChars) ==
  IF Len(input) <= maxLength /\ CharsOf(input) \subseteq allowedChars
    THEN input
    ELSE "~" \o input

sanitizeNonce(nonce) ==
  IF nonce.len <= 64 /\ nonce.form \in {"digits", "base64"}
    THEN nonce
    ELSE [nonce EXCEPT !.form = "stripped"]

(***************************************************************************)
(* The table `attestations`: a sequence of rows, a row's id its position.  *)
(***************************************************************************)
NoNonce == 0             \* a NULL nonce column
NewRow(deviceId, nonce) ==
  [deviceId |-> deviceId, nonce |-> nonce, keyId |-> NULL, publicKey |-> NULL,
   counter |-> 0]

Rows(table) == 1..Len(table)

SelectByDevice_AnyRow(table, deviceId) == table

\* SELECT ... WHERE deviceId = ?
SelectByDevice(table, deviceId) ==
  SelectSeq(table, LAMBDA row : row.deviceId = deviceId)

SelectByKeyAndDevice_AnyDevice(table, keyId, deviceId) ==
  SelectSeq(table, LAMBDA row : row.keyId # NULL /\ row.keyId = keyId)

\* SELECT publicKey, counter FROM attestations WHERE keyId = ? AND deviceId = ?
SelectByKeyAndDevice(table, keyId, deviceId) ==
  SelectSeq(table, LAMBDA row : row.keyId # NULL /\ row.keyId = keyId
                                 /\ row.deviceId = deviceId)

\* UPDATE attestations SET counter = ? WHERE keyId = ?
UpdateCounter(table, newCounter, keyId) ==
  [i \in Rows(table) |->
     IF table[i].keyId # NULL /\ table[i].keyId = keyId
       THEN [table[i] EXCEPT !.counter = newCounter]
       ELSE table[i]]

UpdateKey_ResetCounter(table, publicKeyPEM, keyId, deviceId) ==
  [i \in Rows(table) |->
     IF table[i].deviceId = deviceId
       THEN [table[i] EXCEPT !.publicKey = publicKeyPEM, !.keyId = keyId,
                             !.counter = 0]
       ELSE table[i]]

UpdateKey_KeyIdOnly(table, publicKeyPEM, keyId, deviceId) ==
  [i \in Rows(table) |->
     IF table[i].deviceId = deviceId
       THEN [table[i] EXCEPT !.keyId = keyId]
       ELSE table[i]]

UpdateKey_ClearNonce(table, publicKeyPEM, keyId, deviceId) ==
  [i \in Rows(table) |->
     IF table[i].deviceId = deviceId
       THEN [table[i] EXCEPT !.publicKey = publicKeyPEM, !.keyId = keyId,
                             !.nonce = NoNonce]
       ELSE table[i]]

\* UPDATE attestations SET publicKey = ?, keyId = ? WHERE deviceId = ?
UpdateKey(table, publicKeyPEM, keyId, deviceId) ==
  [i \in Rows(table) |->
     IF table[i].deviceId = deviceId
       THEN [table[i] EXCEPT !.publicKey = publicKeyPEM, !.keyId = keyId]
       ELSE table[i]]

KeyIdUnique_Unchecked(table) == TRUE

RejectedStatement_Applied(table, written) == written

\* a statement the database rejects leaves the table as it was
RejectedStatement(table, written) == table

\* keyId TEXT UNIQUE: no two rows hold the same non-NULL keyId
KeyIdUnique(table) ==
  \A i, j \in Rows(table) :
    i # j /\ table[i].keyId # NULL => table[i].keyId # table[j].keyId

(***************************************************************************)
(* JavaScript strings and objects.  A string is the sequence of its        *)
(* characters; an object is the sequence of its <<key, value>> entries in  *)
(* the order Object.keys and JSON.stringify enumerate them: the keys that  *)
(* are array indices first, in ascending numeric order, then the other     *)
(* keys in the order they were added.                                      *)
(***************************************************************************)
\* the UTF-16 code unit of the characters the model uses
CodeOf(ch) ==
  CASE ch = "\"" -> 34 [] ch = "-" -> 45 [] ch = "/" -> 47
    [] ch = "0" -> 48 [] ch = "1" -> 49 [] ch = "9" -> 57
    [] ch = "\\" -> 92
    [] ch = "a" -> 97 [] ch = "b" -> 98 [] ch = "d" -> 100 [] ch = "e" -> 101
    [] ch = "i" -> 105 [] ch = "r" -> 114 [] ch = "s" -> 115 [] ch = "u" -> 117
    [] ch = "2" -> 50 [] ch = "3" -> 51 [] ch = "4" -> 52 [] ch = "5" -> 53
    [] ch = "6" -> 54 [] ch = "7" -> 55 [] ch = "8" -> 56
    [] ch = "h" -> 104 [] ch = "v" -> 118 [] ch = "x" -> 120

\* the characters of the header names and values that make up client data
CodeUnits(s) ==
  CASE s = "user-id" -> <<"u", "s", "e", "r", "-", "i", "d">>
    [] s = "u1" -> <<"u", "1">>

\* a < b as JavaScript compares strings: by code units, a prefix first
RECURSIVE StrLess(_, _)
StrLess(a, b) ==
  IF b = <<>> THEN FALSE
  ELSE IF a = <<>> THEN TRUE
  ELSE IF CodeOf(Head(a)) # CodeOf(Head(b)) THEN CodeOf(Head(a)) < CodeOf(Head(b))
  ELSE StrLess(Tail(a), Tail(b))

\* Array.prototype.sort() without comparator: ascending by StrLess
RECURSIVE SortStrings(_)
SortStrings(strings) ==
  IF strings = <<>> THEN <<>>
  ELSE LET rest == SortStrings(Tail(strings))
           before == SelectSeq(rest, LAMBDA x : ~StrLess(Head(strings), x))
           after == SelectSeq(rest, LAMBDA x : StrLess(Head(strings), x))
       IN before \o <<Head(strings)>> \o after

\* the number a string of digits spells
RECURSIVE NumOf(_)
NumOf(key) ==
  IF key = <<>> THEN 0
  ELSE 10 * NumOf(SubSeq(key, 1, Len(key) - 1)) + (CodeOf(key[Len(key)]) - 48)

\* an array index: the canonical decimal spelling of an integer below 2^32 - 1
\* (keys of more than nine characters are not among those the model uses)
IsArrayIndex(key) ==
  /\ Len(key) >= 1
  /\ Len(key) <= 9
  /\ \A i \in 1..Len(key) : CodeOf(key[i]) >= 48 /\ CodeOf(key[i]) <= 57
  /\ Len(key) > 1 => key[1] # "0"

ObjectKeys(obj) == [i \in 1..Len(obj) |-> obj[i][1]]
HasKey(obj, key) == \E i \in 1..Len(obj) : obj[i][1] = key
Get(obj, key) == obj[CHOOSE i \in 1..Len(obj) : obj[i][1] = key][2]

\* obj[key] = value
Assign(obj, key, value) ==
  IF HasKey(obj, key)
    THEN [i \in 1..Len(obj) |-> IF obj[i][1] = key THEN <<key, value>> ELSE obj[i]]
  ELSE IF IsArrayIndex(key)
    THEN LET before == SelectSeq(obj, LAMBDA e : IsArrayIndex(e[1]) /\ NumOf(e[1]) < NumOf(key))
             after == SelectSeq(obj, LAMBDA e : ~(IsArrayIndex(e[1]) /\ NumOf(e[1]) < NumOf(key)))
         IN before \o <<<<key, value>>>> \o after
  ELSE Append(obj, <<key, value>>)

\* the object that assigning the entries in their order to {} gives
RECURSIVE FromEntries(_)
FromEntries(entries) ==
  IF entries = <<>> THEN <<>>
  ELSE LET last == entries[Len(entries)] IN
       Assign(FromEntries(SubSeq(entries, 1, Len(entries) - 1)), last[1], last[2])

sortObjectKeys_Unsorted(jsonObj) == jsonObj

\* Object.keys(jsonObj).sort().reduce((result, key) => {result[key] = jsonObj[key]; ...}, {})
sortObjectKeys(jsonObj) ==
  LET keys == SortStrings(ObjectKeys(jsonObj)) IN
  FromEntries([i \in 1..Len(keys) |-> <<keys[i], Get(jsonObj, keys[i])>>])

RECURSIVE Flatten(_)
Flatten(parts) == IF parts = <<>> THEN <<>> ELSE Head(parts) \o Flatten(Tail(parts))

\* a JSON string literal: quotes around the characters, '"' and '\' escaped
Quote(string) ==
  <<"\"">>
    \o Flatten([i \in 1..Len(string) |->
                  IF string[i] \in {"\"", "\\"} THEN <<"\\", string[i]>> ELSE <<string[i]>>])
    \o <<"\"">>

\* JSON.stringify of an object whose values are strings
JSONstringify(obj) ==
  <<"{">>
    \o Flatten([i \in 1..Len(obj) |->
                  (IF i > 1 THEN <<",">> ELSE <<>>)
                    \o Quote(obj[i][1]) \o <<":">> \o Quote(obj[i][2])])
    \o <<"}">>

\* string.replace('/', '\\/'): the first occurrence only
replaceFirstSlash(string) ==
  IF \E i \in 1..Len(string) : string[i] = "/"
    THEN LET first == CHOOSE i \in 1..Len(string) :
                        string[i] = "/" /\ \A j \in 1..(i - 1) : string[j] # "/"
         IN SubSeq(string, 1, first - 1) \o <<"\\", "/">> \o SubSeq(string, first + 1, Len(string))
    ELSE string

\* string.replaceAll('/', '\\/')
replaceAllSlashes(string) ==
  Flatten([i \in 1..Len(string) |->
             IF string[i] = "/" THEN <<"\\", "/">> ELSE <<string[i]>>])

\* clientDataJsonString of verifyAssertion
clientDataJson(clientData) ==
  LET clientDataSorted == sortObjectKeys(clientData) IN
  replaceAllSlashes(JSONstringify(clientDataSorted))

\* SHA-256, taken as collision free: the digest stands for its input
computeSHA256(input) == <<"sha256", input>>

(***************************************************************************)
(* Assertion envelopes and verifyAssertion.  An envelope (the decoded      *)
(* signature header) names the key that signed it, the counter and the     *)
(* app id in its authenticatorData, and the client data the client hashed. *)
(* SHA-256 is taken as collision free, ECDSA as unforgeable.               *)
(***************************************************************************)
\* appIdHash
AppId(teamId, bundleIdentifier) == computeSHA256(teamId \o "." \o bundleIdentifier)

Envelope(k, n, appId, clientData) ==
  [enc |-> "cbor", signer |-> k, ctr |-> n, rp |-> appId,
   cd |-> computeSHA256(clientDataJson(clientData))]
JunkSignature == [Envelope("k1", 0, AppId(TeamId, BundleId), <<>>) EXCEPT !.enc = "junk"]
CounterReason ==
  "The authenticator data counter value is less than the value from the previous assertion."

verifyAssertion_AcceptEqual(signature, clientData, keyPEM, assertionsCount, teamId, bundleIdentifier) ==
  LET clientDataHash == computeSHA256(clientDataJson(clientData)) IN
  IF signature.enc # "cbor" \/ keyPEM = NULL
    THEN [threw |-> TRUE, result |-> FALSE, counter |-> 0, reason |-> "TypeError"]
  ELSE IF ~(PemOf(signature.signer) = keyPEM /\ signature.cd = clientDataHash)
    THEN [threw |-> FALSE, result |-> FALSE, counter |-> 0, reason |-> "Invalid signature."]
  ELSE IF signature.rp # AppId(teamId, bundleIdentifier)
    THEN [threw |-> FALSE, result |-> FALSE, counter |-> 0,
          reason |-> "RP ID does not match SHA256 has of App ID"]
  ELSE IF signature.ctr < assertionsCount
    THEN [threw |-> FALSE, result |-> FALSE, counter |-> 0, reason |-> CounterReason]
  ELSE [threw |-> FALSE, result |-> TRUE, counter |-> signature.ctr, reason |-> ""]

verifyAssertion_RpFirst(signature, clientData, keyPEM, assertionsCount, teamId, bundleIdentifier) ==
  LET clientDataHash == computeSHA256(clientDataJson(clientData)) IN
  IF signature.enc # "cbor" \/ keyPEM = NULL
    THEN [threw |-> TRUE, result |-> FALSE, counter |-> 0, reason |-> "TypeError"]
  ELSE IF signature.rp # AppId(teamId, bundleIdentifier)
    THEN [threw |-> FALSE, result |-> FALSE, counter |-> 0,
          reason |-> "RP ID does not match SHA256 has of App ID"]
  ELSE IF ~(PemOf(signature.signer) = keyPEM /\ signature.cd = clientDataHash)
    THEN [threw |-> FALSE, result |-> FALSE, counter |-> 0, reason |-> "Invalid signature."]
  ELSE IF signature.ctr <= assertionsCount
    THEN [threw |-> FALSE, result |-> FALSE, counter |-> 0, reason |-> CounterReason]
  ELSE [threw |-> FALSE, result |-> TRUE, counter |-> signature.ctr, reason |-> ""]

verifyAssertion(signature, clientData, keyPEM, assertionsCount, teamId, bundleIdentifier) ==
  LET clientDataHash == computeSHA256(clientDataJson(clientData)) IN
  IF signature.enc # "cbor" \/ keyPEM = NULL
    THEN [threw |-> TRUE, result |-> FALSE, counter |-> 0, reason |-> "TypeError"]
  ELSE IF ~(PemOf(signature.signer) = keyPEM /\ signature.cd = clientDataHash)
    THEN [threw |-> FALSE, result |-> FALSE, counter |-> 0, reason |-> "Invalid signature."]
  ELSE IF signature.rp # AppId(teamId, bundleIdentifier)
    THEN [threw |-> FALSE, result |-> FALSE, counter |-> 0,
          reason |-> "RP ID does not match SHA256 has of App ID"]
  ELSE IF signature.ctr <= assertionsCount
    THEN [threw |-> FALSE, result |-> FALSE, counter |-> 0, reason |-> CounterReason]
  ELSE [threw |-> FALSE, result |-> TRUE, counter |-> signature.ctr, reason |-> ""]

isTooOld_Never(unixTimestamp, seconds, clock) == FALSE

\* Returns true if the provided timestamp is older than (seconds); a nonce that
\* does not spell a number gives NaN, and NaN > seconds is false
isTooOld(unixTimestamp, seconds, clock) ==
  /\ unixTimestamp.form = "digits"
  /\ clock - unixTimestamp.num > seconds

(***************************************************************************)
(* Attestation objects and validateAttestation (AttestationValidator).     *)
(***************************************************************************)
Attestation(n, k) ==
  [enc |-> "cbor", len |-> 2000, nonce |-> n, key |-> k, chain |-> TRUE,
   rp |-> AppId(TeamId, BundleId), signCount |-> 0, env |-> "dev",
   credentialId |-> KeyIdOf(k)]

validateAttestation(nonce, keyId, att, teamId, bundleIdentifier, devMode) ==
  LET fail(reason) == [result |-> FALSE, publicKeyPEM |-> NULL, reason |-> reason] IN
  IF att.enc # "cbor" THEN fail("MalformedCbor")
  ELSE IF att.nonce # nonce THEN fail("NonceMismatch")
  ELSE IF ~att.chain THEN fail("InvalidCertChain")
  ELSE IF KeyIdOf(att.key) # keyId THEN fail("KeyIdMismatch")
  ELSE IF att.rp # AppId(teamId, bundleIdentifier) THEN fail("RpIdMismatch")
  ELSE IF att.signCount # 0 THEN fail("NonZeroCounter")
  ELSE IF att.env # (IF devMode THEN "dev" ELSE "prod") THEN fail("WrongEnvironment")
  ELSE IF att.credentialId # keyId THEN fail("CredentialIdMismatch")
  ELSE [result |-> TRUE, publicKeyPEM |-> PemOf(att.key), reason |-> ""]

(***************************************************************************)
(* State.                                                                  *)
(***************************************************************************)
VARIABLES
  store,      \* the table attestations
  calls,      \* per slot: the handler invocation in flight in it, if any
  ret,        \* what the last step returned to its caller, if it returned
  now,        \* Math.floor(Date.now() / 1000)
  nextNonce,  \* the next challenge the nonce oracle draws (challenges never repeat)
  used,       \* history: the challenges a registration has succeeded against
  captured,   \* history: an accepted request an eavesdropper recorded
  args,       \* the arguments of a call of verifyAssertion taken on its own
  out,        \* what that call computed, once it has run
  db,                 \* let db: the connection the module holds, NoDb for null
  dbConnectionError,  \* let dbConnectionError: "" for null
  connections,        \* every sqlite3.Database created so far, by creation order
  queries             \* the dbQuery calls: where each stands

NoDb == 0
dbVars == <<db, dbConnectionError, connections, queries>>
\* the specifications of the handlers leave the connection out
DbUnused ==
  /\ db = NoDb
  /\ dbConnectionError = ""
  /\ connections = <<>>
  /\ queries = <<>>

vars == <<store, calls, ret, now, nextNonce, used, captured, args, out, dbVars>>

Pending == [kind |-> "none", error |-> "", value |-> 0]
Returned(v) == [kind |-> "value", error |-> "", value |-> v]
Failed(e) == [kind |-> "error", error |-> e, value |-> 0]
\* an exception thrown, or a promise rejected, with error e
Thrown(e) == [kind |-> "thrown", error |-> e, value |-> 0]

catchError_Rethrow(result) == result

\* try { ... } catch (error) { return {error: error} } of both handlers
catchError(result) ==
  IF result.kind = "thrown" THEN Failed(result.error) ELSE result

\* POST /api/registerattestation: the status of the response
registerRoute(result) ==
  IF result.kind = "thrown" THEN 500
  ELSE IF result.kind = "error" THEN 400
  ELSE 200

protectedRoute_NoKey400(assertionResult) ==
  IF assertionResult.kind = "thrown" THEN 500
  ELSE IF assertionResult.kind = "error" THEN 400
  ELSE 200

\* POST /api/protectedroute: the status of the response
protectedRoute(assertionResult) ==
  IF assertionResult.kind = "thrown" THEN 500
  ELSE IF assertionResult.kind = "error"
    THEN IF assertionResult.error = "nokey" THEN 422 ELSE 400
  ELSE 200

NoRequest == [headers |-> <<>>, teamId |-> "", bundleIdentifier |-> ""]
IdleCall ==
  [pc |-> "idle", op |-> "none", req |-> NoRequest, deviceId |-> NULL,
   keyId |-> NULL, nonce |-> NoNonce, publicKeyPEM |-> NULL,
   assertionsCount |-> 0, newCounter |-> 0, verified |-> FALSE, reason |-> "",
   replay |-> FALSE,
   result |-> Pending, status |-> 0]

NoCall == [fn |-> "none"]

Free(c) == calls[c].pc = "idle"
\* a new invocation takes the lowest slot that is free
CanStart(c) == Free(c) /\ \A c2 \in Slots : c2 < c => ~Free(c2)

Init ==
  /\ store = <<>>
  /\ calls = [c \in Slots |-> IdleCall]
  /\ ret = IdleCall
  /\ now = Now0
  /\ nextNonce = 1
  /\ used = {}
  /\ captured = {}
  /\ args = NoCall
  /\ out = NoCall
  /\ DbUnused

(***************************************************************************)
(* Requests.                                                               *)
(***************************************************************************)
HonestClientData == <<<<CodeUnits("user-id"), CodeUnits("u1")>>>>

AssertHeaders(deviceId, keyId, signature, nonce) ==
  [h \in {"device-id", "key-id", "signature", "assertion-inputs", "nonce", "user-id"} |->
     CASE h = "device-id" -> deviceId
       [] h = "key-id" -> keyId
       [] h = "signature" -> signature
       [] h = "assertion-inputs" -> "user-id"
       [] h = "nonce" -> nonce
       [] OTHER -> "u1"]

AssertRequest(headers) ==
  [headers |-> headers, teamId |-> TeamId, bundleIdentifier |-> BundleId]

HonestAssert(deviceId, k, n, clock) ==
  AssertRequest(AssertHeaders(deviceId, KeyIdOf(k),
                              Envelope(k, n, AppId(TeamId, BundleId), HonestClientData),
                              TimestampNonce(clock)))

\* the requests a client may send at time clock: every envelope a key can have
\* signed, with either device id, and one request per way of being wrong
AssertRequests(clock) ==
  LET base == HonestAssert(DeviceA, "k1", 1, clock)
      h == base.headers
  IN {HonestAssert(d, k, n, clock) :
        d \in {DeviceA, DeviceB}, k \in Keys, n \in 1..MaxCounter}
     \cup {AssertRequest([h EXCEPT !["nonce"] = TimestampNonce(clock - 121)]),
           AssertRequest([h EXCEPT !["signature"] = JunkSignature]),
           AssertRequest([h EXCEPT !["signature"] =
             Envelope("k2", 1, AppId(TeamId, BundleId), HonestClientData)])}

RegisterRequest(deviceId, keyId, att) ==
  [headers |-> [h \in {"device-id"} |-> deviceId],
   body |-> [f \in {"keyId", "attestationObject"} |->
               IF f = "keyId" THEN keyId ELSE att],
   teamId |-> TeamId, bundleIdentifier |-> BundleId, devMode |-> TRUE]

\* the registrations a client may send once the challenges in `issued` exist: an
\* attestation is bound to a challenge the client was given (before any was
\* given, to a guess)
RegisterRequests(issued) ==
  LET known == IF issued = {} THEN {1} ELSE issued
      n0 == CHOOSE n \in known : \A m \in known : n <= m
      att == Attestation(n0, "k1")
      base == RegisterRequest(DeviceA, KeyIdOf("k1"), att)
  IN {RegisterRequest(d, KeyIdOf(k), Attestation(n, k)) :
        d \in {DeviceA, DeviceB}, k \in Keys, n \in known}
     \cup {RegisterRequest(DeviceA, KeyIdOf("k2"), att),
           RegisterRequest(DeviceA, KeyIdOf("k1"), [att EXCEPT !.chain = FALSE])}

AssertRequestsNow0 == AssertRequests(Now0)
RegisterRequestsUpTo == [k \in 0..MaxNonce |-> RegisterRequests(1..k)]

(***************************************************************************)
(* getNonce (AttestationValidator): the nonce oracle.  A fresh challenge   *)
(* is upserted into the row of the device.                                 *)
(***************************************************************************)
UpsertNonce_AlwaysInsert(table, deviceId, nonce) ==
  Append(table, NewRow(deviceId, nonce))

UpsertNonce(table, deviceId, nonce) ==
  IF ~\E i \in Rows(table) : table[i].deviceId = deviceId
    THEN Append(table, NewRow(deviceId, nonce))
    ELSE [i \in Rows(table) |->
            IF table[i].deviceId = deviceId
              THEN [table[i] EXCEPT !.nonce = nonce]
              ELSE table[i]]

IssueNonce(deviceId) ==
  /\ nextNonce <= MaxNonce
  /\ isValidDeviceId(deviceId)
  /\ store' = UpsertNonce(store, deviceId, nextNonce)
  /\ nextNonce' = nextNonce + 1
  /\ ret' = IdleCall
  /\ UNCHANGED <<calls, now, used, captured, args, out, dbVars>>

(***************************************************************************)
(* registerAttestation.                                                    *)
(***************************************************************************)
HasDot(bundleIdentifier) == bundleIdentifier \in {BundleId, OtherBundleId}

\* the checks on teamId and bundleIdentifier both handlers start with: the
\* error returned, "" when they pass
ConfigError_Unchecked(teamId, bundleIdentifier) == ""

ConfigError(teamId, bundleIdentifier) ==
  IF teamId = "" THEN "Team ID is required"
  ELSE IF bundleIdentifier = "" THEN "Bundle identifier is required"
  ELSE IF Len(teamId) # 10 THEN "Team ID must be a 10-character string"
  ELSE IF ~HasDot(bundleIdentifier)
    THEN "Bundle identifier must be a valid reverse domain string"
  ELSE ""

\* the synchronous part of registerAttestation before its SELECT: the error
\* returned, "" when the SELECT is reached
RegisterPrecheck(req, clock) ==
  LET bodyValidation == validateAttestationBody(req.body)
      headerValidation == validateHeaders(req.headers, clock)
  IN
  IF ConfigError(req.teamId, req.bundleIdentifier) # ""
    THEN ConfigError(req.teamId, req.bundleIdentifier)
  ELSE IF ~bodyValidation.isValid
    THEN "Invalid request body: " \o Join(bodyValidation.errors)
  ELSE IF ~headerValidation.isValid
    THEN "Invalid headers: " \o Join(headerValidation.errors)
  ELSE IF sanitizeInput(req.headers["device-id"], 64, Alnum \cup {"hyphen"}) = ""
    THEN "Missing required fields: keyId, attestationObject, device-id"
  ELSE ""

NoNonceError == "Device not found or nonce expired. Please request a new nonce."
AttestationError == "Attestation could not be validated."

\* what a call returns, and the status its route answers with; the request is
\* kept with an accepted assertion only
Finish(call, result) ==
  [call EXCEPT !.pc = "done", !.result = result,
               !.status = IF call.op = "assert" THEN protectedRoute(result)
                          ELSE registerRoute(result),
               !.req = IF call.op = "assert" /\ result.kind = "value"
                         THEN @ ELSE NoRequest]

\* registerAttestation up to its UPDATE: the checks, the SELECT of the nonce,
\* validateAttestation
registerAttestationRead(req, table, clock) ==
  LET call == [IdleCall EXCEPT !.op = "register"]
      pre == RegisterPrecheck(req, clock)
  IN
  IF pre # "" THEN Finish(call, Failed(pre))
  ELSE
    LET keyId == req.body["keyId"]
        attestationObject == req.body["attestationObject"]
        deviceId == sanitizeInput(req.headers["device-id"], 64, Alnum \cup {"hyphen"})
        nonceQuery == SelectByDevice(table, deviceId)
        here == [call EXCEPT !.deviceId = deviceId, !.keyId = keyId]
    IN
    IF nonceQuery = <<>> \/ nonceQuery[1].nonce = NoNonce
      THEN Finish(here, Failed(NoNonceError))
    ELSE
      LET attestationResult ==
            validateAttestation(nonceQuery[1].nonce, keyId, attestationObject,
                                req.teamId, req.bundleIdentifier, req.devMode)
          checked == [here EXCEPT !.nonce = nonceQuery[1].nonce,
                                  !.verified = TRUE,
                                  !.reason = attestationResult.reason]
      IN
      IF ~attestationResult.result
        THEN Finish(checked, Failed(AttestationError))
        ELSE [checked EXCEPT !.pc = "update",
                             !.publicKeyPEM = attestationResult.publicKeyPEM]

\* the calls in flight, in the order of the slots that hold them
InFlight(slots) ==
  SelectSeq([i \in 1..Cardinality(Slots) |-> slots[i]], LAMBDA call : call.pc # "idle")

\* slot numbers mean nothing: the calls in flight are kept in the lowest slots
Compact(slots) ==
  [c \in Slots |-> IF c <= Len(InFlight(slots)) THEN InFlight(slots)[c] ELSE IdleCall]

\* a call that reached its UPDATE stays in its slot; one that returned leaves it
Proceed(c, call) ==
  IF call.pc = "done"
    THEN calls' = Compact([calls EXCEPT ![c] = IdleCall]) /\ ret' = call
    ELSE calls' = [calls EXCEPT ![c] = call] /\ ret' = IdleCall

RA_Read(c, req) ==
  /\ CanStart(c)
  /\ Proceed(c, registerAttestationRead(req, store, now))
  /\ UNCHANGED <<store, now, nextNonce, used, captured, args, out, dbVars>>

ConstraintError == "Error: Database query failed: SQLITE_CONSTRAINT"

\* the UPDATE of registerAttestation and its return; a statement that would
\* break keyId UNIQUE fails and changes nothing
RA_Write(c) ==
  LET call == calls[c]
      written == UpdateKey(store, call.publicKeyPEM, call.keyId, call.deviceId)
  IN
  /\ call.pc = "update"
  /\ call.op = "register"
  /\ IF KeyIdUnique(written)
       THEN /\ store' = written
            /\ Proceed(c, Finish(call, Returned(1)))
            /\ used' = used \cup {call.nonce}
       ELSE /\ store' = RejectedStatement(store, written)
            /\ Proceed(c, Finish(call, catchError(Thrown(ConstraintError))))
            /\ UNCHANGED used
  /\ UNCHANGED <<now, nextNonce, captured, args, out, dbVars>>

(***************************************************************************)
(* validateAssertion.                                                      *)
(***************************************************************************)
maxSignatureAge == 120
MissingHeadersError ==
  "Missing or invalid required headers: device-id, signature, key-id, assertion-inputs, nonce"
VerifyError == "Assertion could not be verified"

VerifyFailure_Reason(assertionResult) == Failed(assertionResult.reason)

\* what validateAssertion returns when verifyAssertion's result is false
VerifyFailure(assertionResult) == Failed(VerifyError)

\* sanitizeInput of a header that may be absent
Sanitized(headers, name, maxLength, allowedChars) ==
  IF ~Has(headers, name) THEN ""
  ELSE sanitizeInput(headers[name], maxLength, allowedChars)

\* the synchronous part of validateAssertion before its SELECT: the error
\* returned, "" when the SELECT is reached
AssertPrecheck(req, clock) ==
  LET headerValidation == validateHeaders(req.headers, clock)
      deviceId == Sanitized(req.headers, "device-id", 64, Alnum \cup {"hyphen"})
      keyId == Sanitized(req.headers, "key-id", 48, Base64Chars)
      assertionInputs ==
        Sanitized(req.headers, "assertion-inputs", 500, {"lower", "digit", "hyphen", "semicolon"})
  IN
  IF ConfigError(req.teamId, req.bundleIdentifier) # ""
    THEN ConfigError(req.teamId, req.bundleIdentifier)
  ELSE IF ~headerValidation.isValid
    THEN "Invalid headers: " \o Join(headerValidation.errors)
  ELSE IF \/ deviceId = ""
          \/ ~Has(req.headers, "signature")
          \/ keyId = ""
          \/ assertionInputs = ""
          \/ ~Has(req.headers, "nonce")
    THEN MissingHeadersError
  ELSE IF isTooOld(sanitizeNonce(req.headers["nonce"]), maxSignatureAge, clock)
    THEN "Signature is too old."
  ELSE ""

\* Build clientData from the assertion input: the listed headers that are present
BuildClientData(headers, assertionInputs) ==
  LET clientDataKeys == NamesIn(assertionInputs)
      present == SelectSeq(clientDataKeys, LAMBDA key : key \in DOMAIN headers)
  IN FromEntries([i \in 1..Len(present) |->
                    <<CodeUnits(present[i]), CodeUnits(headers[present[i]])>>])

\* validateAssertion up to its UPDATE: the checks, the SELECT of the key,
\* verifyAssertion
validateAssertionRead(req, table, clock, replayed) ==
  LET call == [IdleCall EXCEPT !.op = "assert", !.replay = replayed]
      pre == AssertPrecheck(req, clock)
  IN
  IF pre # "" THEN Finish(call, Failed(pre))
  ELSE
    LET deviceId == Sanitized(req.headers, "device-id", 64, Alnum \cup {"hyphen"})
        signature == req.headers["signature"]
        keyId == Sanitized(req.headers, "key-id", 48, Base64Chars)
        assertionInputs ==
          Sanitized(req.headers, "assertion-inputs", 500,
                    {"lower", "digit", "hyphen", "semicolon"})
        keyQuery == SelectByKeyAndDevice(table, keyId, deviceId)
        here == [call EXCEPT !.deviceId = deviceId, !.keyId = keyId]
    IN
    IF keyQuery = <<>> THEN Finish(here, Failed("nokey"))
    ELSE
      LET clientData == BuildClientData(req.headers, assertionInputs)
          publicKey == keyQuery[1].publicKey
          assertionsCount == keyQuery[1].counter
          assertionResult ==
            verifyAssertion(signature, clientData, publicKey, assertionsCount,
                            req.teamId, req.bundleIdentifier)
          checked == [here EXCEPT !.assertionsCount = assertionsCount,
                                  !.verified = TRUE,
                                  !.reason = assertionResult.reason]
      IN
      IF assertionResult.threw THEN Finish(checked, catchError(Thrown("TypeError")))
      ELSE IF ~assertionResult.result THEN Finish(checked, VerifyFailure(assertionResult))
      ELSE [checked EXCEPT !.pc = "update", !.req = req,
                           !.newCounter = assertionResult.counter]

VA_Read(c, req) ==
  /\ CanStart(c)
  /\ Proceed(c, validateAssertionRead(req, store, now, req \in captured))
  /\ UNCHANGED <<store, now, nextNonce, used, captured, args, out, dbVars>>

\* the UPDATE of validateAssertion and its return
VA_Write(c) ==
  LET call == calls[c] IN
  /\ call.pc = "update"
  /\ call.op = "assert"
  /\ store' = UpdateCounter(store, call.newCounter, call.keyId)
  /\ Proceed(c, Finish(call, Returned(call.newCounter)))
  /\ UNCHANGED <<now, nextNonce, used, captured, args, out, dbVars>>

(***************************************************************************)
(* The environment.                                                        *)
(***************************************************************************)
\* an eavesdropper keeps the request of a call that was accepted
Capture ==
  /\ captured = {}
  /\ ret.op = "assert"
  /\ ret.result.kind = "value"
  /\ captured' = {ret.req}
  /\ UNCHANGED <<store, calls, ret, now, nextNonce, used, args, out, dbVars>>

\* dbQuery rejects: the statement fails and changes nothing
DbError == "Error: Database query failed: SQLITE_BUSY"

\* registerAttestation whose SELECT is rejected
RA_ReadFails(c, req) ==
  LET call == [IdleCall EXCEPT
                 !.op = "register",
                 !.keyId = req.body["keyId"],
                 !.deviceId = sanitizeInput(req.headers["device-id"], 64, Alnum \cup {"hyphen"})]
  IN
  /\ CanStart(c)
  /\ RegisterPrecheck(req, now) = ""
  /\ Proceed(c, Finish(call, catchError(Thrown(DbError))))
  /\ UNCHANGED <<store, now, nextNonce, used, captured, args, out, dbVars>>

\* registerAttestation whose UPDATE is rejected
RA_WriteFails(c) ==
  LET call == calls[c] IN
  /\ call.pc = "update"
  /\ call.op = "register"
  /\ store' = RejectedStatement(store, UpdateKey(store, call.publicKeyPEM, call.keyId,
                                                 call.deviceId))
  /\ Proceed(c, Finish(call, catchError(Thrown(DbError))))
  /\ UNCHANGED <<now, nextNonce, used, captured, args, out, dbVars>>

\* validateAssertion whose SELECT is rejected
VA_ReadFails(c, req) ==
  LET call == [IdleCall EXCEPT
                 !.op = "assert",
                 !.deviceId = Sanitized(req.headers, "device-id", 64, Alnum \cup {"hyphen"}),
                 !.keyId = Sanitized(req.headers, "key-id", 48, Base64Chars)]
  IN
  /\ CanStart(c)
  /\ AssertPrecheck(req, now) = ""
  /\ Proceed(c, Finish(call, catchError(Thrown(DbError))))
  /\ UNCHANGED <<store, now, nextNonce, used, captured, args, out, dbVars>>

\* validateAssertion whose UPDATE is rejected
VA_WriteFails(c) ==
  LET call == calls[c] IN
  /\ call.pc = "update"
  /\ call.op = "assert"
  /\ store' = RejectedStatement(store, UpdateCounter(store, call.newCounter, call.keyId))
  /\ Proceed(c, Finish(call, catchError(Thrown(DbError))))
  /\ UNCHANGED <<now, nextNonce, used, captured, args, out, dbVars>>

\* the publicKey of a row is lost (deleted from the table by hand)
LosePublicKey(i) ==
  /\ store[i].publicKey # NULL
  /\ store' = [store EXCEPT ![i].publicKey = NULL]
  /\ ret' = IdleCall
  /\ UNCHANGED <<calls, now, nextNonce, used, captured, args, out, dbVars>>

(***************************************************************************)
(* Specifications.                                                         *)
(***************************************************************************)
AssertRequestsAt(clock) ==
  IF clock = Now0 THEN AssertRequestsNow0 ELSE AssertRequests(clock)

\* the server as deployed: handlers interleave at their awaits
Next ==
  \/ \E d \in {DeviceA, DeviceB} : IssueNonce(d)
  \/ \E c \in Slots : \E req \in RegisterRequestsUpTo[nextNonce - 1] : RA_Read(c, req)
  \/ \E c \in Slots : RA_Write(c)
  \/ \E c \in Slots : \E req \in AssertRequestsAt(now) : VA_Read(c, req)
  \/ \E c \in Slots : VA_Write(c)

Spec == Init /\ [][Next]_vars

\* one handler call at a time: a call starts when none is in flight
Idle == \A c \in Slots : Free(c)

NextSeq ==
  \/ Idle /\ \E d \in {DeviceA, DeviceB} : IssueNonce(d)
  \/ Idle /\ \E c \in Slots : \E req \in RegisterRequestsUpTo[nextNonce - 1] : RA_Read(c, req)
  \/ \E c \in Slots : RA_Write(c)
  \/ Idle /\ \E c \in Slots : \E req \in AssertRequestsAt(now) : VA_Read(c, req)
  \/ \E c \in Slots : VA_Write(c)

SpecSeq == Init /\ [][NextSeq]_vars

\* one call at a time, and rows may lose their publicKey
NextKeyLoss ==
  \/ NextSeq
  \/ \E i \in Rows(store) : LosePublicKey(i)

SpecKeyLoss == Init /\ [][NextKeyLoss]_vars

\* the requests of one device, with any key
DeviceRegisterRequests(issued) ==
  {req \in RegisterRequestsUpTo[issued] : req.headers["device-id"] = DeviceA}

DeviceAssertRequests(clock) ==
  {req \in AssertRequestsAt(clock) : req.headers["device-id"] = DeviceA}

\* one call at a time, of one device; its row may lose its publicKey, and any
\* store query may be rejected
NextFault ==
  \/ Idle /\ IssueNonce(DeviceA)
  \/ Idle /\ \E c \in Slots : \E req \in DeviceRegisterRequests(nextNonce - 1) : RA_Read(c, req)
  \/ \E c \in Slots : RA_Write(c)
  \/ Idle /\ \E c \in Slots : \E req \in DeviceAssertRequests(now) : VA_Read(c, req)
  \/ \E c \in Slots : VA_Write(c)
  \/ Idle /\ \E i \in Rows(store) : LosePublicKey(i)
  \/ Idle /\ \E c \in Slots : \E req \in DeviceRegisterRequests(nextNonce - 1) : RA_ReadFails(c, req)
  \/ \E c \in Slots : RA_WriteFails(c)
  \/ Idle /\ \E c \in Slots : \E req \in DeviceAssertRequests(now) : VA_ReadFails(c, req)
  \/ \E c \in Slots : VA_WriteFails(c)

SpecFault == Init /\ [][NextFault]_vars

\* the requests of one device with one key
OneDeviceRegister(issued) ==
  {req \in RegisterRequestsUpTo[issued] :
     req.headers["device-id"] = DeviceA /\ req.body["keyId"] = KeyIdOf("k1")}

OneDeviceAssert(clock) ==
  {req \in AssertRequestsAt(clock) :
     req.headers["device-id"] = DeviceA /\ req.headers["key-id"] = KeyIdOf("k1")}

\* interleaved calls of one device with one key, and an eavesdropper
NextReplay ==
  \/ IssueNonce(DeviceA)
  \/ \E c \in Slots : \E req \in OneDeviceRegister(nextNonce - 1) : RA_Read(c, req)
  \/ \E c \in Slots : RA_Write(c)
  \/ \E c \in Slots : \E req \in OneDeviceAssert(now) : VA_Read(c, req)
  \/ \E c \in Slots : VA_Write(c)
  \/ Capture

SpecReplay == Init /\ [][NextReplay]_vars

\* requests of one device with one key that fail each check of verifyAssertion
\* and several checks of validateAttestation
ReasonAssertRequests(clock) ==
  OneDeviceAssert(clock)
    \cup {AssertRequest([HonestAssert(DeviceA, "k1", n, clock).headers EXCEPT
                           !["signature"] = Envelope("k1", n, AppId(TeamId, OtherBundleId),
                                                     HonestClientData)]) :
            n \in 1..MaxCounter}

ReasonRegisterRequests(issued) ==
  OneDeviceRegister(issued)
    \cup UNION {{RegisterRequest(DeviceA, KeyIdOf("k1"), Attestation(n, "k2")),
                 RegisterRequest(DeviceA, KeyIdOf("k1"),
                                 [Attestation(n, "k1") EXCEPT !.rp = AppId(TeamId, OtherBundleId)]),
                 RegisterRequest(DeviceA, KeyIdOf("k1"),
                                 [Attestation(n, "k1") EXCEPT !.signCount = 1]),
                 RegisterRequest(DeviceA, KeyIdOf("k1"),
                                 [Attestation(n, "k1") EXCEPT !.env = "prod"])} :
                n \in 1..issued}

\* one call at a time, of one device with one key, failing in every way
NextReasons ==
  \/ Idle /\ IssueNonce(DeviceA)
  \/ Idle /\ \E c \in Slots : \E req \in ReasonRegisterRequests(nextNonce - 1) : RA_Read(c, req)
  \/ \E c \in Slots : RA_Write(c)
  \/ Idle /\ \E c \in Slots : \E req \in ReasonAssertRequests(now) : VA_Read(c, req)
  \/ \E c \in Slots : VA_Write(c)

SpecReasons == Init /\ [][NextReasons]_vars

\* requests that fail the checks the handlers make before their first query,
\* one check or several at once
DeviceIds == {DeviceA, LongDevice, ShortDevice, TooLongDevice, BadCharDevice}

Without(headers, name) == [h \in DOMAIN headers \ {name} |-> headers[h]]

CheckRegisterRequests(issued) ==
  LET known == IF issued = 0 THEN {1} ELSE 1..issued IN
  {RegisterRequest(d, KeyIdOf("k1"), Attestation(n, "k1")) : d \in DeviceIds, n \in known}
    \cup {[RegisterRequest(DeviceA, KeyIdOf("k1"), Attestation(n, "k1")) EXCEPT
             !.headers = Without(@, "device-id")] : n \in known}
    \cup {RegisterRequest(ShortDevice, ShortKeyId, Attestation(1, "k1")),
          [RegisterRequest(ShortDevice, KeyIdOf("k1"), Attestation(1, "k1")) EXCEPT
             !.teamId = "ABC"]}

CheckAssertRequests(clock) ==
  LET honest == HonestAssert(DeviceA, "k1", 1, clock)
      h == honest.headers
      stale == [h EXCEPT !["nonce"] = TimestampNonce(clock - 121)]
  IN {AssertRequest([HonestAssert(DeviceA, "k1", n, clock).headers EXCEPT !["device-id"] = d]) :
        d \in DeviceIds, n \in 1..MaxCounter}
     \cup {AssertRequest(Without(h, name)) :
             name \in {"device-id", "signature", "key-id", "assertion-inputs", "nonce"}}
     \cup {AssertRequest(Without(stale, name)) :
             name \in {"device-id", "signature", "key-id", "assertion-inputs"}}
     \cup {AssertRequest(Without([h EXCEPT !["key-id"] = ShortKeyId], "signature")),
           AssertRequest([h EXCEPT !["key-id"] = ShortKeyId]),
           AssertRequest(stale),
           AssertRequest([stale EXCEPT !["key-id"] = KeyIdOf("k2")]),
           AssertRequest([stale EXCEPT !["device-id"] = ShortDevice])}
     \cup {[AssertRequest(headers) EXCEPT !.teamId = t, !.bundleIdentifier = b] :
             headers \in {h, stale, Without(h, "nonce"), [h EXCEPT !["device-id"] = ShortDevice]},
             t \in {TeamId, "ABC", ""}, b \in {BundleId, "nodots", ""}}
CheckAssertRequestsNow0 == CheckAssertRequests(Now0)
CheckAssertRequestsAt(clock) ==
  IF clock = Now0 THEN CheckAssertRequestsNow0 ELSE CheckAssertRequests(clock)

\* one call at a time, with those requests
NextChecks ==
  \/ Idle /\ \E d \in {DeviceA, LongDevice} : IssueNonce(d)
  \/ Idle /\ \E c \in Slots : \E req \in CheckRegisterRequests(nextNonce - 1) : RA_Read(c, req)
  \/ \E c \in Slots : RA_Write(c)
  \/ Idle /\ \E c \in Slots : \E req \in CheckAssertRequestsAt(now) : VA_Read(c, req)
  \/ \E c \in Slots : VA_Write(c)

SpecChecks == Init /\ [][NextChecks]_vars

\* interleaved registrations only: no assertion is sent
NextRegister ==
  \/ \E d \in {DeviceA, DeviceB} : IssueNonce(d)
  \/ \E c \in Slots : \E req \in RegisterRequestsUpTo[nextNonce - 1] : RA_Read(c, req)
  \/ \E c \in Slots : RA_Write(c)

SpecRegister == Init /\ [][NextRegister]_vars

\* interleaved calls of the three operations, each device with its own key and
\* correct requests only
OwnKey(d) == IF d = DeviceA THEN "k1" ELSE "k2"

NextRows ==
  \/ \E d \in {DeviceA, DeviceB} : IssueNonce(d)
  \/ \E c \in Slots : \E d \in {DeviceA, DeviceB} : \E n \in 1..(nextNonce - 1) :
       RA_Read(c, RegisterRequest(d, KeyIdOf(OwnKey(d)), Attestation(n, OwnKey(d))))
  \/ \E c \in Slots : RA_Write(c)
  \/ \E c \in Slots : \E d \in {DeviceA, DeviceB} : \E n \in 1..MaxCounter :
       VA_Read(c, HonestAssert(d, OwnKey(d), n, now))
  \/ \E c \in Slots : VA_Write(c)

SpecRows == Init /\ [][NextRows]_vars


\* the nonce headers a client may send at time clock: timestamps around the
\* limits the code tests, and strings that are no ten-digit timestamp
NonceOffsets == {-301, -300, -299, -121, -120, -119, 0, 59, 60, 61}
Nonces(clock) ==
  {TimestampNonce(clock + o) : o \in NonceOffsets}
    \cup {PaddedNonce(clock), PaddedNonce(clock - 121), Base64Nonce}

\* correctly signed requests of one device with one key, with those nonces
NonceRequests(clock) ==
  {AssertRequest([HonestAssert(DeviceA, "k1", n, clock).headers EXCEPT !["nonce"] = v]) :
     n \in 1..MaxCounter, v \in Nonces(clock)}
NonceRequestsNow0 == NonceRequests(Now0)
NonceRequestsAt(clock) ==
  IF clock = Now0 THEN NonceRequestsNow0 ELSE NonceRequests(clock)

\* one call at a time, of one device with one key, with any of those nonces
NextNonce ==
  \/ Idle /\ IssueNonce(DeviceA)
  \/ Idle /\ \E c \in Slots : \E req \in OneDeviceRegister(nextNonce - 1) : RA_Read(c, req)
  \/ \E c \in Slots : RA_Write(c)
  \/ Idle /\ \E c \in Slots : \E req \in NonceRequestsAt(now) : VA_Read(c, req)
  \/ \E c \in Slots : VA_Write(c)

SpecNonce == Init /\ [][NextNonce]_vars

(***************************************************************************)
(* The canonical client-data JSON on its own: steps 1 of verifyAssertion   *)
(* applied to a client data object built by assigning up to MaxEntries     *)
(* entries, in any order, to an empty object.                              *)
(***************************************************************************)
MaxEntries == 3

JsonKeys == {<<"9">>, <<"1", "0">>, <<"a">>, <<"a", "/">>}
JsonValues == {<<"u", "1">>, <<"/", "/">>, <<"\\", "/">>, <<"\"">>}

\* the sequences of up to n entries with distinct keys
RECURSIVE EntrySeqs(_)
EntrySeqs(n) ==
  IF n = 0 THEN {<<>>}
  ELSE LET shorter == EntrySeqs(n - 1) IN
       shorter \cup
         {Append(entries, <<key, value>>) :
            entries \in {e \in shorter : Len(e) = n - 1},
            key \in JsonKeys, value \in JsonValues}

DistinctKeys(entries) ==
  \A i, j \in 1..Len(entries) : entries[i][1] = entries[j][1] => i = j

InitJson ==
  /\ store = <<>>
  /\ calls = [c \in Slots |-> IdleCall]
  /\ ret = IdleCall
  /\ now = Now0
  /\ nextNonce = 1
  /\ used = {}
  /\ captured = {}
  /\ args \in {[fn |-> "canonical", entries |-> entries] :
                 entries \in {e \in EntrySeqs(MaxEntries) : DistinctKeys(e)}}
  /\ out = NoCall
  /\ DbUnused

Canonicalize ==
  /\ args.fn = "canonical"
  /\ out.fn = "none"
  /\ LET clientData == FromEntries(args.entries)
         clientDataSorted == sortObjectKeys(clientData)
         clientDataJsonString == clientDataJson(clientData)
     IN out' = [fn |-> "canonical",
                clientDataSorted |-> clientDataSorted,
                clientDataJsonString |-> clientDataJsonString,
                clientDataHash |-> computeSHA256(clientDataJsonString)]
  /\ UNCHANGED <<store, calls, ret, now, nextNonce, used, captured, args, dbVars>>

NextJson == Canonicalize

SpecJson == InitJson /\ [][NextJson]_vars

(***************************************************************************)
(* verifyAssertion on its own, on any combination of a signature, client   *)
(* data, stored key, stored counter and app id.                            *)
(***************************************************************************)
OtherClientData == <<<<CodeUnits("user-id"), <<"u", "9">>>>>>

VerifySignatures ==
  {Envelope(k, n, AppId(TeamId, bundleIdentifier), clientData) :
     k \in Keys, n \in 0..(MaxCounter + 1),
     bundleIdentifier \in {BundleId, OtherBundleId},
     clientData \in {HonestClientData, OtherClientData}}
    \cup {JunkSignature}

VerifyArgs ==
  [fn : {"verify"},
   signature : VerifySignatures,
   clientData : {HonestClientData, OtherClientData},
   keyPEM : {PemOf(k) : k \in Keys} \cup {NULL},
   assertionsCount : 0..MaxCounter,
   teamId : {TeamId},
   bundleIdentifier : {BundleId, OtherBundleId}]

InitVerify ==
  /\ store = <<>>
  /\ calls = [c \in Slots |-> IdleCall]
  /\ ret = IdleCall
  /\ now = Now0
  /\ nextNonce = 1
  /\ used = {}
  /\ captured = {}
  /\ args \in VerifyArgs
  /\ out = NoCall
  /\ DbUnused

Verify ==
  /\ args.fn = "verify"
  /\ out.fn = "none"
  /\ out' = [fn |-> "verify",
             returned |-> verifyAssertion(args.signature, args.clientData, args.keyPEM,
                                          args.assertionsCount, args.teamId,
                                          args.bundleIdentifier)]
  /\ UNCHANGED <<store, calls, ret, now, nextNonce, used, captured, args, dbVars>>

NextVerify == Verify

SpecVerify == InitVerify /\ [][NextVerify]_vars

(***************************************************************************)
(* Properties.                                                             *)
(***************************************************************************)
Accepted(call) == call.op = "assert" /\ call.result.kind = "value"
Registered(call) == call.op = "register" /\ call.result.kind = "value"

\* C1: with one call at a time, a validateAssertion call that succeeds carried
\* a counter n strictly greater than the counter stored for its (keyId,
\* deviceId); its UPDATE leaves exactly n in that row, and n is what it returns.
C1_CounterAdvances ==
  [][\A c \in Slots :
       VA_Write(c) =>
         LET call == calls[c]
             n == call.req.headers["signature"].ctr
             before == SelectByKeyAndDevice(store, call.keyId, call.deviceId)
             after == SelectByKeyAndDevice(store', call.keyId, call.deviceId)
         IN /\ before # <<>>
            /\ n > before[1].counter
            /\ before[1].counter = call.assertionsCount
            /\ after # <<>>
            /\ after[1].counter = n
            /\ ret'.result = Returned(n)]_vars

C1_Witness ==
  /\ Accepted(ret)
  /\ ret.assertionsCount = 1
  /\ ret.result = Returned(2)
  /\ \E i \in Rows(store) : store[i].keyId = ret.keyId /\ store[i].counter = 2

\* C2: the stored counter of a row never decreases, whatever the interleaving
\* of the validateAssertion calls for its keyId.
C2_CounterNeverDecreases ==
  [][\A i \in Rows(store) : store'[i].counter >= store[i].counter]_vars

\* C3: of two validateAssertion calls in flight together that carry the same
\* counter for the same keyId, at most one succeeds: a call does not succeed
\* right after a call it overlapped succeeded with the same counter and keyId.
C3_OneOfTwoSucceeds ==
  [][\A c \in Slots :
       VA_Write(c) =>
         ~(/\ Accepted(ret)
           /\ ret.keyId = calls[c].keyId
           /\ ret.newCounter = calls[c].newCounter)]_vars

\* C4: a request that was accepted, and is submitted again after that call
\* returned, is rejected.
C4_ReplayRejected == ret.replay => ret.result.kind = "error"

\* C5: a validateAssertion call whose headers are well formed and fresh
\* returns 'nokey' exactly when no row holds both the key-id and the device-id
\* of the request, and then verifyAssertion has not been run.
C5_NoKeyIffNoRow ==
  /\ [](\A req \in AssertRequestsAt(now) :
          AssertPrecheck(req, now) = "" =>
            LET call == validateAssertionRead(req, store, now, FALSE) IN
            /\ call.result = Failed("nokey")
                 <=> ~\E i \in Rows(store) :
                        /\ store[i].keyId = req.headers["key-id"]
                        /\ store[i].deviceId = req.headers["device-id"]
            /\ call.result = Failed("nokey") => ~call.verified)
  \* and a call that does return 'nokey' found no row and ran no verification
  /\ [][(ret'.op = "assert" /\ ret'.result = Failed("nokey"))
          => /\ ~ret'.verified
             /\ ~\E i \in Rows(store) :
                   store[i].keyId = ret'.keyId /\ store[i].deviceId = ret'.deviceId]_vars

C5_Witness ==
  /\ ret.op = "assert"
  /\ ret.result = Failed("nokey")
  /\ \E i \in Rows(store) :
       /\ store[i].keyId = ret.keyId
       /\ store[i].publicKey # NULL
       /\ store[i].deviceId # ret.deviceId

\* C6: when the row of (keyId, deviceId) exists and its publicKey is NULL,
\* validateAssertion returns the sentinel 'nokey'.
C6_LostKeyIsNoKey ==
  [][\A c \in Slots : \A req \in AssertRequestsAt(now) :
       /\ ret'.op = "assert" \/ calls'[c].op = "assert"
       /\ VA_Read(c, req)
       /\ AssertPrecheck(req, now) = ""
       /\ \E i \in Rows(store) :
            /\ store[i].keyId = req.headers["key-id"]
            /\ store[i].deviceId = req.headers["device-id"]
            /\ store[i].publicKey = NULL
       => ret'.result = Failed("nokey")]_vars

\* C7: once a registerAttestation against a newly issued nonce has given a
\* device a key other than the one its row held, the first assertion of the
\* new key (counter 1, correctly signed, fresh) passes validateAssertion's
\* checks, whatever counter the row held.
C7_NewKeyAccepted ==
  [][\A c \in Slots :
       /\ RA_Write(c)
       /\ Registered(ret')
       /\ calls[c].nonce \notin used
       /\ \E i \in Rows(store) :
            store[i].deviceId = calls[c].deviceId /\ store[i].keyId # calls[c].keyId
       => \A k \in Keys :
            KeyIdOf(k) = calls[c].keyId =>
              validateAssertionRead(HonestAssert(calls[c].deviceId, k, 1, now),
                                    store', now, FALSE).pc = "update"]_vars

\* C8: a registerAttestation for a device that has no row, or whose row has
\* no nonce, returns an error, runs no attestation verification and writes
\* nothing; and every row that holds a publicKey holds a nonce that was issued.
C8_NoNonceNoKey ==
  /\ [](\A i \in Rows(store) :
          store[i].publicKey # NULL => store[i].nonce \in 1..(nextNonce - 1))
  /\ [][\A c \in Slots : \A req \in RegisterRequestsUpTo[nextNonce - 1] :
          /\ ret'.op = "register" \/ calls'[c].op = "register"
          /\ RA_Read(c, req)
          /\ ~\E i \in Rows(store) :
                store[i].deviceId = req.headers["device-id"] /\ store[i].nonce # NoNonce
          => /\ ret'.op = "register"
             /\ ret'.result.kind = "error"
             /\ ~ret'.verified
             /\ store' = store
             /\ calls' = calls]_vars

C8_Witness ==
  /\ ret.op = "register"
  /\ ret.result = Failed(NoNonceError)
  /\ ret.deviceId = DeviceB
  /\ \E i \in Rows(store) : store[i].publicKey # NULL
  /\ ~\E i \in Rows(store) : store[i].deviceId = DeviceB

\* C9: a challenge authorises at most one successful registration: no
\* registerAttestation succeeds against a challenge one has succeeded against.
C9_NonceUsedOnce ==
  [][\A c \in Slots :
       RA_Write(c) /\ Registered(ret') => calls[c].nonce \notin used]_vars

\* C10: the nonce registerAttestation hands to validateAttestation is the one
\* stored in the row of the device when the row is read, and an attestation
\* bound to any other nonce, an earlier one of the device included, is rejected.
C10_CurrentNonceOnly ==
  [][\A c \in Slots : \A req \in RegisterRequestsUpTo[nextNonce - 1] :
       \* the step is a call of registerAttestation with req (a call past the
       \* body and header checks holds the ids of its request)
       /\ LET call == IF ret'.op = "register" THEN ret' ELSE calls'[c] IN
            /\ call.op = "register"
            /\ call.deviceId = req.headers["device-id"]
            /\ call.keyId = req.body["keyId"]
       /\ RA_Read(c, req)
       /\ RegisterPrecheck(req, now) = ""
       /\ \E i \in Rows(store) :
            store[i].deviceId = req.headers["device-id"] /\ store[i].nonce # NoNonce
       => LET call == IF ret'.op = "register" THEN ret' ELSE calls'[c] IN
          /\ call.verified
          /\ \E i \in Rows(store) :
               store[i].deviceId = req.headers["device-id"] /\ store[i].nonce = call.nonce
          /\ req.body["attestationObject"].nonce # call.nonce =>
               /\ ret'.result = Failed(AttestationError)
               /\ store' = store]_vars

C10_Witness ==
  /\ ret.op = "register"
  /\ ret.result = Failed(AttestationError)
  /\ ret.reason = "NonceMismatch"
  /\ ret.nonce = 2
  /\ Len(store) = 1
  /\ store[1].deviceId = ret.deviceId
  /\ store[1].nonce = 2

\* C11: no two rows ever hold the same non-NULL keyId, and the UPDATE of a
\* registerAttestation whose keyId is stored in the row of another device
\* returns an error and changes no row.
C11_KeyIdGloballyUnique ==
  /\ [](\A i, j \in Rows(store) :
          i # j /\ store[i].keyId # NULL => store[i].keyId # store[j].keyId)
  /\ [][\A c \in Slots :
          /\ RA_Write(c)
          /\ \E i \in Rows(store) :
               store[i].keyId = calls[c].keyId /\ store[i].deviceId # calls[c].deviceId
          => /\ ret'.op = "register"
             /\ ret'.result.kind = "error"
             /\ store' = store]_vars

C11_Witness ==
  /\ ret.op = "register"
  /\ ret.result = Failed(ConstraintError)
  /\ \E i, j \in Rows(store) :
       /\ store[i].keyId = ret.keyId
       /\ store[i].deviceId # ret.deviceId
       /\ store[j].deviceId = ret.deviceId
       /\ store[j].keyId # ret.keyId

\* C12: the (keyId, publicKey) pair of a row is (NULL, NULL) or the pair one
\* successful registerAttestation wrote; a step changes the keyId or the
\* publicKey of a row only as the UPDATE of a registerAttestation that
\* succeeds, which writes both; a step changes a nonce only as the nonce
\* oracle, so validateAssertion and failed registrations change none of them.
C12_KeyPairWrittenTogether ==
  /\ [](\A i \in Rows(store) :
          \/ store[i].keyId = NULL /\ store[i].publicKey = NULL
          \/ \E k \in Keys :
               store[i].keyId = KeyIdOf(k) /\ store[i].publicKey = PemOf(k))
  /\ [][\A i \in Rows(store) :
          /\ store'[i].keyId # store[i].keyId \/ store'[i].publicKey # store[i].publicKey
               => /\ Registered(ret')
                  /\ \E c \in Slots : RA_Write(c)
                  /\ ret'.deviceId = store[i].deviceId
                  /\ store'[i].keyId = ret'.keyId
                  /\ store'[i].publicKey = ret'.publicKeyPEM
          /\ store'[i].nonce # store[i].nonce
               => \E d \in {DeviceA, DeviceB} : IssueNonce(d)]_vars

\* a re-attestation has replaced the pair of a row that had accepted assertions
C12_Witness ==
  /\ Registered(ret)
  /\ \E i \in Rows(store) :
       /\ store[i].deviceId = ret.deviceId
       /\ store[i].keyId = KeyIdOf("k2")
       /\ store[i].publicKey = PemOf("k2")
       /\ store[i].counter > 0

\* C13: the UPDATE of registerAttestation leaves the counter of every row as
\* it was, and the counter of a row that had no key before is 0 after it.
C13_RegistrationKeepsCounter ==
  [][\A c \in Slots :
       RA_Write(c) =>
         \A i \in Rows(store) :
           /\ store'[i].counter = store[i].counter
           /\ store[i].keyId = NULL /\ store[i].deviceId = calls[c].deviceId
                => store'[i].counter = 0]_vars

\* a re-attestation succeeded on a row whose counter assertions had raised
C13_Witness ==
  /\ Registered(ret)
  /\ \E i \in Rows(store) :
       /\ store[i].deviceId = ret.deviceId
       /\ store[i].keyId = ret.keyId
       /\ store[i].counter = MaxCounter

\* C14: the nonce header of every request validateAssertion accepts is a
\* ten-digit Unix timestamp t with now - 300 <= t <= now + 60.
C14_AcceptedNonceIsTimestamp ==
  Accepted(ret) =>
    LET nonce == ret.req.headers["nonce"] IN
    /\ nonce.form = "digits"
    /\ nonce.len = 10
    /\ nonce.num >= now - 300
    /\ nonce.num <= now + 60

\* C15: a correctly signed request whose nonce is a ten-digit timestamp t with
\* now - 300 <= t <= now + 60 is not rejected because of its nonce.
C15_WindowNotStale ==
  [][\A c \in Slots : \A req \in NonceRequestsAt(now) :
       /\ VA_Read(c, req)
       /\ req.headers["nonce"].form = "digits"
       /\ req.headers["nonce"].len = 10
       /\ req.headers["nonce"].num >= now - 300
       /\ req.headers["nonce"].num <= now + 60
       => /\ ret'.result # Failed("Signature is too old.")
          /\ ret'.result # Failed("Invalid headers: Invalid nonce format")]_vars

\* C16: a request whose nonce is a string of digits spelling t with
\* now - t > 120 gets an error, the one of the checks that precede the SELECT,
\* and the step changes neither the table nor the calls in flight.
C16_StaleRejectedEarly ==
  [][\A c \in Slots : \A req \in NonceRequestsAt(now) :
       /\ VA_Read(c, req)
       /\ req.headers["nonce"].form = "digits"
       /\ now - req.headers["nonce"].num > 120
       => /\ AssertPrecheck(req, now) # ""
          /\ ret'.op = "assert"
          /\ ret'.result = Failed(AssertPrecheck(req, now))
          /\ ~ret'.verified
          /\ store' = store
          /\ calls' = calls]_vars

\* a stale request was refused although the key it names is registered
C16_Witness ==
  /\ ret.op = "assert"
  /\ ret.result = Failed("Signature is too old.")
  /\ \E i \in Rows(store) : store[i].keyId = KeyIdOf("k1") /\ store[i].publicKey # NULL

\* C17: the string verifyAssertion hashes does not depend on the order in
\* which the entries of clientData were inserted: every permutation of the
\* entries gives the same canonical JSON.
C17_OrderIndependent ==
  out.fn = "canonical" =>
    \A p \in Permutations(1..Len(args.entries)) :
      clientDataJson(FromEntries([i \in 1..Len(args.entries) |-> args.entries[p[i]]]))
        = out.clientDataJsonString

\* a full object whose non-index keys were inserted out of order was serialized
C17_Witness ==
  /\ out.fn = "canonical"
  /\ Len(args.entries) = MaxEntries
  /\ \E i, j \in 1..Len(args.entries) :
       /\ i < j
       /\ ~IsArrayIndex(args.entries[i][1])
       /\ ~IsArrayIndex(args.entries[j][1])
       /\ StrLess(args.entries[j][1], args.entries[i][1])
  /\ out.clientDataHash = computeSHA256(out.clientDataJsonString)

\* headerRegex /^[a-z0-9-]{1,50}$/
IsHeaderName(key) ==
  /\ Len(key) >= 1
  /\ Len(key) <= 50
  /\ \A i \in 1..Len(key) :
       \/ CodeOf(key[i]) >= 97 /\ CodeOf(key[i]) <= 122
       \/ CodeOf(key[i]) >= 48 /\ CodeOf(key[i]) <= 57
       \/ CodeOf(key[i]) = 45

\* C18: when every key of clientData is a header name, the keys of the canonical
\* JSON appear in ascending lexicographic order of their characters, keys made
\* of digits included ("10" before "9").
C18_KeysLexicographic ==
  (/\ out.fn = "canonical"
   /\ \A i \in 1..Len(args.entries) : IsHeaderName(args.entries[i][1]))
    => /\ out.clientDataJsonString = replaceAllSlashes(JSONstringify(out.clientDataSorted))
       /\ \A i, j \in 1..Len(out.clientDataSorted) :
            i < j => StrLess(out.clientDataSorted[i][1], out.clientDataSorted[j][1])

\* a string with each of its slashes written as backslash, slash
RECURSIVE SlashEscaped(_)
SlashEscaped(string) ==
  IF string = <<>> THEN <<>>
  ELSE (IF Head(string) = "/" THEN <<"\\", "/">> ELSE <<Head(string)>>)
         \o SlashEscaped(Tail(string))

\* a string without the backslashes that stand directly before a slash
Unescaped(string) ==
  Flatten([i \in 1..Len(string) |->
             IF string[i] = "\\" /\ i < Len(string) /\ string[i + 1] = "/"
               THEN <<>> ELSE <<string[i]>>])

CountSlashes(string) == Cardinality({i \in 1..Len(string) : string[i] = "/"})

\* C19: in the canonical JSON every slash of a key or of a value is written as
\* backslash, slash, and nothing else of the compact serialization is changed:
\* the text is the serialization with each key and each value escaped, and
\* taking the added backslashes away gives JSON.stringify's text back.
C19_SlashesEscaped ==
  out.fn = "canonical" =>
    LET obj == out.clientDataSorted IN
    /\ out.clientDataJsonString =
         <<"{">>
           \o Flatten([i \in 1..Len(obj) |->
                         (IF i > 1 THEN <<",">> ELSE <<>>)
                           \o SlashEscaped(Quote(obj[i][1])) \o <<":">>
                           \o SlashEscaped(Quote(obj[i][2]))])
           \o <<"}">>
    /\ Unescaped(out.clientDataJsonString) = JSONstringify(obj)
    /\ Len(out.clientDataJsonString) = Len(JSONstringify(obj)) + CountSlashes(JSONstringify(obj))

\* a serialized object with a slash in a key and several in a value
C19_Witness ==
  /\ out.fn = "canonical"
  /\ \E i \in 1..Len(out.clientDataSorted) :
       /\ CountSlashes(out.clientDataSorted[i][1]) >= 1
       /\ CountSlashes(out.clientDataSorted[i][2]) >= 2
  /\ \E i \in 1..Len(out.clientDataSorted) : out.clientDataSorted[i][2] = <<"\\", "/">>
  /\ CountSlashes(out.clientDataJsonString) >= 4

\* the three conditions of C20, read off the arguments of the call
SignatureVerifies ==
  /\ args.signature.enc = "cbor"
  /\ args.keyPEM # NULL
  /\ PemOf(args.signature.signer) = args.keyPEM
  /\ args.signature.cd = computeSHA256(clientDataJson(args.clientData))
RpIdMatches ==
  args.signature.rp = computeSHA256(args.teamId \o "." \o args.bundleIdentifier)
CounterAdvances == args.signature.ctr > args.assertionsCount

\* C20: verifyAssertion returns {result: true, counter: n} exactly when the
\* signature verifies under the stored key, the RP ID is the hash of
\* teamId.bundleId and the counter n of the authenticator data is greater than
\* assertionsCount; when it returns a failure, the reason is that of the first
\* failing check in the order signature, RP ID, counter.
C20_VerifyAssertion ==
  out.fn = "verify" =>
    /\ (out.returned.result /\ out.returned.counter = args.signature.ctr)
         <=> (SignatureVerifies /\ RpIdMatches /\ CounterAdvances)
    /\ out.returned.result \/ out.returned.threw \/ out.returned.reason # ""
    /\ ~out.returned.threw =>
         out.returned.reason =
           IF ~SignatureVerifies THEN "Invalid signature."
           ELSE IF ~RpIdMatches THEN "RP ID does not match SHA256 has of App ID"
           ELSE IF ~CounterAdvances THEN CounterReason
           ELSE ""
    /\ out.returned.threw => ~SignatureVerifies

\* a call with the highest stored counter accepted the next counter value
C20_Witness ==
  /\ out.fn = "verify"
  /\ args.assertionsCount = MaxCounter
  /\ out.returned.result
  /\ out.returned.counter = MaxCounter + 1

\* C21: on the protected route the status is 422 exactly when validateAssertion
\* returned the error 'nokey', 400 exactly when it returned any other error,
\* and 200 only when it returned a counter.
C21_StatusOfAssertion ==
  (ret.pc = "done" /\ ret.op = "assert") =>
    /\ ret.status \in {200, 400, 422}
    /\ ret.status = 422 <=> (ret.result.kind = "error" /\ ret.result.error = "nokey")
    /\ ret.status = 400 <=> (ret.result.kind = "error" /\ ret.result.error # "nokey")
    /\ ret.status = 200 => (ret.result.kind = "value" /\ ret.result.value >= 1)

\* a device registered with one key presented another and was answered 422
C21_Witness ==
  /\ ret.pc = "done"
  /\ ret.op = "assert"
  /\ ret.status = 422
  /\ \E i \in Rows(store) :
       store[i].deviceId = ret.deviceId /\ store[i].keyId \notin {NULL, ret.keyId}

\* C22: a call of validateAssertion or registerAttestation in which a store
\* query was rejected is answered with status 500, not with the 400 of a
\* verification failure.
C22_StorageErrorIs500 ==
  (ret.pc = "done" /\ ret.result.kind # "value"
     /\ ret.result.error \in {DbError, ConstraintError})
    => ret.status = 500

\* the reasons verifyAssertion gives for its failed checks
VerifyReasons ==
  {"Invalid signature.", "RP ID does not match SHA256 has of App ID", CounterReason}

\* C23: the value returned does not tell which check failed: validateAssertion
\* returns one and the same error for an invalid signature, an RP ID mismatch
\* and a counter regression, and registerAttestation one and the same error for
\* every reason validateAttestation reports.
C23_NoOracle ==
  (ret.pc = "done" /\ ret.verified /\ ret.reason # "") =>
    /\ (ret.op = "assert" /\ ret.reason \in VerifyReasons)
         => (ret.result = Failed(VerifyError) /\ ret.status = 400)
    /\ ret.op = "register"
         => (ret.result = Failed(AttestationError) /\ ret.status = 400)

\* a correctly signed assertion for another app id was refused
C23_Witness ==
  /\ ret.pc = "done"
  /\ ret.op = "assert"
  /\ ret.verified
  /\ ret.reason = "RP ID does not match SHA256 has of App ID"
  /\ ret.result = Failed(VerifyError)

\* C24: validateAssertion and registerAttestation never throw or reject: every
\* call resolves to its success value or to an object with an error, also when
\* the signature is no CBOR, the stored publicKey cannot be parsed or a store
\* query is rejected.
C24_NeverThrows ==
  ret.pc = "done" =>
    \/ ret.result.kind = "value" /\ ret.status = 200
    \/ ret.result.kind = "error" /\ ret.result.error # "" /\ ret.status \in {400, 422}

\* a call that found the row of its key without publicKey resolved to an error
C24_Witness ==
  /\ ret.pc = "done"
  /\ ret.op = "assert"
  /\ ret.result = Failed("TypeError")
  /\ \E i \in Rows(store) :
       /\ store[i].deviceId = ret.deviceId
       /\ store[i].keyId = ret.keyId
       /\ store[i].publicKey = NULL

\* C25: validateAssertion succeeds for a device and a key only when that key is
\* the device's current registration (the row of the device holds the keyId and
\* its publicKey, which only a successful registerAttestation writes), and the
\* row holds a challenge an earlier issueNonce gave the device.
C25_ProtocolOrder ==
  Accepted(ret) =>
    \E i \in Rows(store) :
      /\ store[i].deviceId = ret.deviceId
      /\ store[i].keyId = ret.keyId
      /\ store[i].publicKey # NULL
      /\ store[i].nonce \in 1..(nextNonce - 1)

\* the device-id header is present and is 8 to 64 characters of [a-zA-Z0-9-]
DeviceIdOk(headers) ==
  /\ "device-id" \in DOMAIN headers
  /\ Len(headers["device-id"]) \in 8..64
  /\ CharsOf(headers["device-id"]) \subseteq {"lower", "upper", "digit", "hyphen"}

\* a call returned an error without having reached its first store query
RejectedEarly(call) ==
  /\ call.pc = "done"
  /\ call.result.kind = "error"
  /\ call.deviceId = NULL
  /\ ~call.verified

\* C26: a registerAttestation or validateAssertion call whose device-id header
\* is missing or is not 8 to 64 characters of [a-zA-Z0-9-] returns an error
\* and neither reads nor writes the store; a call whose device-id passes and
\* that reaches the store queries it with exactly the header value.
C26_DeviceIdChecked ==
  /\ [](/\ \A req \in CheckRegisterRequests(nextNonce - 1) :
            LET call == registerAttestationRead(req, store, now) IN
            IF DeviceIdOk(req.headers)
              THEN call.deviceId \in {NULL, req.headers["device-id"]}
              ELSE RejectedEarly(call)
        /\ \A req \in CheckAssertRequestsAt(now) :
            LET call == validateAssertionRead(req, store, now, FALSE) IN
            IF DeviceIdOk(req.headers)
              THEN call.deviceId \in {NULL, req.headers["device-id"]}
              ELSE RejectedEarly(call))
  /\ [][RejectedEarly(ret') => (store' = store /\ calls' = calls)]_vars

\* a device with a 64-character device-id was registered and had an assertion
\* accepted, and later a call with a bad device-id was rejected by the header
\* check
C26_Witness ==
  /\ RejectedEarly(ret)
  /\ ret.result = Failed("Invalid headers: Invalid device-id format")
  /\ \E i \in Rows(store) :
       store[i].deviceId = LongDevice /\ store[i].publicKey # NULL /\ store[i].counter >= 1

\* the rows of a device
RowsOf(table, deviceId) == {i \in Rows(table) : table[i].deviceId = deviceId}

\* C27: in every reachable state, under any interleaving of issueNonce,
\* registerAttestation and validateAssertion, the store holds at most one row
\* per deviceId, and the UPDATE of a registration changes exactly one row.
C27_OneRowPerDevice ==
  /\ [](\A i, j \in Rows(store) : store[i].deviceId = store[j].deviceId => i = j)
  /\ [][\A c \in Slots :
          (RA_Write(c) /\ Registered(ret'))
            => /\ Cardinality(RowsOf(store, calls[c].deviceId)) = 1
               /\ Cardinality({i \in Rows(store) : store'[i] # store[i]}) <= 1
               /\ Len(store') = Len(store)]_vars

\* a device was registered after an issueNonce had replaced its challenge while
\* the registration was in flight
C27_Witness ==
  /\ Registered(ret)
  /\ Cardinality(RowsOf(store, ret.deviceId)) = 1
  /\ \E i \in Rows(store) :
       /\ store[i].deviceId = ret.deviceId
       /\ store[i].keyId = ret.keyId
       /\ store[i].nonce # ret.nonce

\* the checks validateAssertion makes before its first store access, in the
\* order of the claim: the number of the first that req fails, 0 if none
FailsTeamOrBundle(req) ==
  \/ Len(req.teamId) # 10
  \/ req.bundleIdentifier \notin {BundleId, OtherBundleId}
FailsNonEmpty(req) ==
  \E name \in {"device-id", "signature", "key-id", "assertion-inputs", "nonce"} :
    name \notin DOMAIN req.headers
FailsAge(req, clock) ==
  /\ req.headers["nonce"].form = "digits"
  /\ req.headers["nonce"].num < clock - maxSignatureAge
FirstFailing(req, clock) ==
  IF FailsTeamOrBundle(req) THEN 1
  ELSE IF ~validateHeaders(req.headers, clock).isValid THEN 2
  ELSE IF FailsNonEmpty(req) THEN 3
  ELSE IF FailsAge(req, clock) THEN 4
  ELSE 0

\* the errors each of those checks returns
ErrorsOfCheck(n, req, clock) ==
  CASE n = 1 -> {"Team ID is required", "Bundle identifier is required",
                 "Team ID must be a 10-character string",
                 "Bundle identifier must be a valid reverse domain string"}
    [] n = 2 -> {"Invalid headers: " \o Join(validateHeaders(req.headers, clock).errors)}
    [] n = 3 -> {MissingHeadersError}
    [] n = 4 -> {"Signature is too old."}

\* C28: validateAssertion makes its request checks in the order teamId and
\* bundleIdentifier, validateHeaders, the five headers non-empty, the age of
\* the nonce; a request failing any of them gets the error of the first it
\* fails with no store read or write, and a request passing all of them reaches
\* the SELECT.
C28_ChecksBeforeStore ==
  /\ [](\A req \in CheckAssertRequestsAt(now) :
          LET call == validateAssertionRead(req, store, now, FALSE)
              n == FirstFailing(req, now)
          IN IF n = 0
               THEN call.deviceId = req.headers["device-id"]
               ELSE /\ RejectedEarly(call)
                    /\ call.result.error \in ErrorsOfCheck(n, req, now))
  /\ [][RejectedEarly(ret') => (store' = store /\ calls' = calls)]_vars

\* after a device was registered, a request failing one of the checks was
\* turned away
C28_Witness ==
  /\ ret.op = "assert"
  /\ RejectedEarly(ret)
  /\ ret.result = Failed(MissingHeadersError)
  /\ \E i \in Rows(store) : store[i].publicKey # NULL

\* C29: a validateAssertion or registerAttestation call that returns an error
\* has written nothing: neither the step on which it returns the error nor the
\* part of a call before its UPDATE changes any row.
C29_FailedCallWritesNothing ==
  [][(\/ ret'.pc = "done" /\ ret'.result.kind = "error"
      \/ \E c \in Slots : calls[c].pc = "idle" /\ calls'[c].pc = "update")
       => store' = store]_vars

\* an assertion was verified, its UPDATE was rejected, and the row still holds
\* the counter it held before the call
C29_Witness ==
  /\ ret.op = "assert"
  /\ ret.verified
  /\ ret.result = Failed(DbError)
  /\ \E i \in Rows(store) :
       /\ store[i].keyId = ret.keyId
       /\ store[i].counter = ret.assertionsCount
       /\ store[i].counter < ret.newCounter

\* C30: once a device has re-attested with a new keyId, a validateAssertion for
\* the device with a keyId that is not the one in its row returns 'nokey',
\* however well signed, and an accepted assertion always carries the keyId the
\* row of its device holds: only the most recently registered key is accepted.
C30_OnlyCurrentKey ==
  /\ [](\A k \in Keys : \A n \in 1..(MaxCounter + 1) :
          \A i \in Rows(store) :
            (store[i].keyId \notin {NULL, KeyIdOf(k)})
              => validateAssertionRead(HonestAssert(store[i].deviceId, k, n, now),
                                       store, now, FALSE).result = Failed("nokey"))
  /\ [](Accepted(ret) =>
          \E i \in Rows(store) :
            store[i].deviceId = ret.deviceId /\ store[i].keyId = ret.keyId)

\* C31: in any interleaving, a step of a registerAttestation call for device A
\* changes only rows whose deviceId is A, a step of a validateAssertion call
\* accepted for (keyId K, deviceId A) changes only the counter of the row of A
\* that holds K, and getNonce changes only the nonce of rows of one device; every
\* other row stays as it was and no row is removed.
C31_OtherRowsUnchanged ==
  [][/\ Len(store') >= Len(store)
     /\ \A i \in Rows(store) :
          store'[i] # store[i] =>
            \/ /\ ret'.op = "register"
               /\ store[i].deviceId = ret'.deviceId
               /\ store'[i].deviceId = ret'.deviceId
            \/ /\ Accepted(ret')
               /\ store[i].keyId = ret'.keyId
               /\ store[i].deviceId = ret'.deviceId
               /\ store'[i] = [store[i] EXCEPT !.counter = ret'.newCounter]
            \/ /\ ret' = IdleCall
               /\ nextNonce' # nextNonce
               /\ store'[i] = [store[i] EXCEPT !.nonce = nextNonce]
               /\ \A j \in Rows(store) :
                    store'[j] # store[j] => store[j].deviceId = store[i].deviceId]_vars

(***************************************************************************)
(* The assertion-inputs header, character by character: what               *)
(* validateHeaders accepts, what sanitizeInput keeps of it, and the client *)
(* data validateAssertion builds from it.  Strings are sequences of        *)
(* characters; the request's headers are a function from names to values.  *)
(***************************************************************************)
MaxHeaderNames == 20        \* headerNames.length > 20 is rejected
MaxNameLength == 50         \* /^[a-z0-9-]{1,50}$/
MaxInputsLength == 500      \* sanitizeInput(..., { maxLength: 500, ... })

LowerChars ==
  {"a", "b", "c", "d", "e", "f", "g", "h", "i", "j", "k", "l", "m", "n", "o",
   "p", "q", "r", "s", "t", "u", "v", "w", "x", "y", "z"}
DigitChars == {"0", "1", "2", "3", "4", "5", "6", "7", "8", "9"}
WhiteSpace == {" ", "\t", "\n"}
ControlChars == {"\t", "\n"}

\* String.prototype.split(sep): the pieces between the separators
split(string, sep) ==
  LET seps == {i \in 1..Len(string) : string[i] = sep}
      cut(k) == IF k = 0 THEN 0
                ELSE IF k = Cardinality(seps) + 1 THEN Len(string) + 1
                ELSE CHOOSE p \in seps : Cardinality({q \in seps : q < p}) = k - 1
  IN [k \in 1..(Cardinality(seps) + 1) |-> SubSeq(string, cut(k - 1) + 1, cut(k) - 1)]

\* String.prototype.trim()
trim(string) ==
  LET keep == {i \in 1..Len(string) : string[i] \notin WhiteSpace} IN
  IF keep = {} THEN <<>>
  ELSE SubSeq(string, CHOOSE i \in keep : \A j \in keep : i <= j,
                      CHOOSE i \in keep : \A j \in keep : i >= j)

\* String.prototype.slice(0, maxLength)
slice(string, maxLength) ==
  SubSeq(string, 1, IF Len(string) < maxLength THEN Len(string) ELSE maxLength)

\* String.prototype.toLowerCase() on the characters the model uses
toLowerCase(string) ==
  [i \in 1..Len(string) |->
     CASE string[i] = "H" -> "h" [] string[i] = "X" -> "x" [] OTHER -> string[i]]

\* /^[a-z0-9-]{1,50}$/.test(name)
headerRegex(name) ==
  /\ Len(name) >= 1
  /\ Len(name) <= MaxNameLength
  /\ \A i \in 1..Len(name) : name[i] \in LowerChars \cup DigitChars \cup {"-"}

\* isValidAssertionInputs on the characters of the header
isValidAssertionInputsChars(assertionInputs) ==
  LET headerNames == split(assertionInputs, ";") IN
  /\ assertionInputs # <<>>
  /\ Len(headerNames) <= MaxHeaderNames
  /\ \A i \in 1..Len(headerNames) :
       headerNames[i] # <<>> /\ headerRegex(trim(headerNames[i]))

\* sanitizeInput on the characters of the input: trim, cut to maxLength, drop
\* control characters, drop what is not among allowedChars
sanitizeInputChars(input, maxLength, allowedChars) ==
  IF input = <<>> THEN <<>>
  ELSE SelectSeq(SelectSeq(slice(trim(input), maxLength),
                           LAMBDA ch : ch \notin ControlChars),
                 LAMBDA ch : ch \in allowedChars)

\* Build clientData from the assertion input
buildClientData(headers, assertionInputs) ==
  LET clientDataKeys == split(toLowerCase(assertionInputs), ";")
      present == SelectSeq(clientDataKeys, LAMBDA key : key \in DOMAIN headers)
  IN FromEntries([i \in 1..Len(present) |-> <<present[i], headers[present[i]]>>])

\* validateAssertion from the check of the headers to the client data it
\* passes to verifyAssertion, for a request whose other headers are in order
clientDataOf(headers, rawInputs) ==
  LET assertionInputs ==
        sanitizeInputChars(rawInputs, MaxInputsLength,
                           LowerChars \cup DigitChars \cup {"-", ";"})
  IN
  IF rawInputs # <<>> /\ ~isValidAssertionInputsChars(rawInputs)
    THEN [error |-> "Invalid headers: Invalid assertion-inputs format", clientData |-> <<>>]
  ELSE IF assertionInputs = <<>>
    THEN [error |-> MissingHeadersError, clientData |-> <<>>]
  ELSE [error |-> "", clientData |-> buildClientData(headers, assertionInputs)]

\* Requests that list up to `most` header names, the first `long`
\* of them of MaxNameLength characters, the others of three characters.
DigitChar(n) == <<"0", "1", "2", "3", "4", "5", "6", "7", "8", "9">>[n + 1]
LongName(i) ==
  [j \in 1..MaxNameLength |->
     IF j <= MaxNameLength - 2 THEN "h"
     ELSE IF j = MaxNameLength - 1 THEN DigitChar(i \div 10) ELSE DigitChar(i % 10)]
ShortName(i) == <<"x", DigitChar(i \div 10), DigitChar(i % 10)>>
HeaderValue(i) == <<"v", DigitChar(i \div 10), DigitChar(i % 10)>>

ListedNames(count, long) ==
  [i \in 1..count |-> IF i <= long THEN LongName(i) ELSE ShortName(i)]

\* the header as the client writes it: the names joined by ';'
joinNames(names, style) ==
  Flatten([i \in 1..Len(names) |->
             (IF i > 1 THEN <<";">> ELSE <<>>)
               \o (IF style = "spaced" /\ i > 1 THEN <<" ">> ELSE <<>>)
               \o (IF style = "upper" /\ i = 1 THEN <<"X">> ELSE <<>>)
               \o names[i]])

PresentIndexes(count, presence) ==
  CASE presence = "all" -> 1..count
    [] presence = "odd" -> {i \in 1..count : i % 2 = 1}
    [] presence = "none" -> {}

HeadersWith(names, indexes) ==
  [key \in {names[i] : i \in indexes} |->
     HeaderValue(CHOOSE i \in indexes : names[i] = key)]

InputsArgs(most) ==
  {[fn |-> "inputs",
    names |-> ListedNames(count, long),
    rawInputs |-> joinNames(ListedNames(count, long), style),
    headers |-> HeadersWith(ListedNames(count, long), PresentIndexes(count, presence))] :
     count \in 1..most, long \in 0..most,
     style \in {"plain", "spaced", "upper"}, presence \in {"all", "odd", "none"}}

InitInputs ==
  /\ store = <<>>
  /\ calls = [c \in Slots |-> IdleCall]
  /\ ret = IdleCall
  /\ now = Now0
  /\ nextNonce = 1
  /\ used = {}
  /\ captured = {}
  /\ args \in InputsArgs(MaxHeaderNames + 1)
  /\ out = NoCall
  /\ DbUnused

BuildInputs ==
  /\ args.fn = "inputs"
  /\ out.fn = "none"
  /\ LET built == clientDataOf(args.headers, args.rawInputs) IN
     out' = [fn |-> "inputs", error |-> built.error, clientData |-> built.clientData]
  /\ UNCHANGED <<store, calls, ret, now, nextNonce, used, captured, args, dbVars>>

NextInputs == BuildInputs

SpecInputs == InitInputs /\ [][NextInputs]_vars

\* C32: for every request whose assertion-inputs header passes validation (at
\* most 20 names of 1 to 50 characters of [a-z0-9-]), the client data that
\* validateAssertion builds holds exactly the listed names that are headers of
\* the request, each with the value of its header: none is dropped or cut short.
C32_ClientDataIsListedHeaders ==
  (out.fn = "inputs" /\ isValidAssertionInputsChars(args.rawInputs)) =>
    LET listed == {args.names[i] : i \in 1..Len(args.names)}
        present == listed \cap DOMAIN args.headers
        keys == {out.clientData[i][1] : i \in 1..Len(out.clientData)}
    IN /\ out.error = ""
       /\ keys = present
       /\ \A key \in present : Get(out.clientData, key) = args.headers[key]

(***************************************************************************)
(* The database module: the connection it holds (db, dbConnectionError),   *)
(* initializeDatabase and dbQuery.  The driver (sqlite3) calls back once   *)
(* per open and once per db.all; a continuation that follows a callback as *)
(* a microtask runs in the same step as the callback.                      *)
(***************************************************************************)
MaxQueries == 2

handlerVars == <<store, calls, ret, now, nextNonce, used, captured, args, out>>

QueryIds == 1..MaxQueries
ConnectionIds == 1..(1 + 2 * MaxQueries)
OpenErrors == {"SQLITE_CANTOPEN"}
QueryErrors == {"SQLITE_CANTOPEN", "SQLITE_NOTADB", "SQLITE_BUSY"}
DirErrors == {"EACCES"}

IsConnectionError_Any(code) == code # ""

\* err.code === 'SQLITE_CANTOPEN' || err.code === 'SQLITE_NOTADB'
IsConnectionError(code) == code \in {"SQLITE_CANTOPEN", "SQLITE_NOTADB"}

IdleQuery ==
  [pc |-> "idle", attempts |-> 0, firstError |-> "", waitsFor |-> NoDb,
   on |-> NoDb, error |-> ""]

Settled == {"resolved", "rejected"}

Resolve(query) == [query EXCEPT !.pc = "resolved", !.waitsFor = NoDb, !.on = NoDb]
Reject(query, error) ==
  [query EXCEPT !.pc = "rejected", !.error = error, !.waitsFor = NoDb, !.on = NoDb]

\* initializeDatabase up to its return: nothing to do when a connection is
\* held and no error is recorded; else the directory is made (dirError when
\* that fails) and a new sqlite3.Database is created, its open pending
initializeDatabase(handle, connectionError, conns, dirError) ==
  IF handle # NoDb /\ connectionError = ""
    THEN [db |-> handle, dbConnectionError |-> connectionError, connections |-> conns,
          promise |-> "resolved", opened |-> NoDb]
  ELSE IF dirError # ""
    THEN [db |-> handle, dbConnectionError |-> dirError, connections |-> conns,
          promise |-> "rejected", opened |-> NoDb]
  ELSE [db |-> Len(conns) + 1, dbConnectionError |-> connectionError,
        connections |-> Append(conns, [state |-> "opening"]),
        promise |-> "pending", opened |-> Len(conns) + 1]

\* db.all(query, args, callback) on the connection the module holds now; a
\* null db throws, which the caller's catch turns into a rejection
dbAll(query, handle, next, thrown) ==
  IF handle = NoDb THEN Reject(query, thrown)
  ELSE [query EXCEPT !.pc = next, !.attempts = @ + 1, !.on = handle, !.waitsFor = NoDb]

\* the module is loaded: initializeDatabase().catch(...)
InitDb ==
  /\ store = <<>>
  /\ calls = [c \in Slots |-> IdleCall]
  /\ ret = IdleCall
  /\ now = Now0
  /\ nextNonce = 1
  /\ used = {}
  /\ captured = {}
  /\ args = NoCall
  /\ out = NoCall
  /\ queries = [q \in QueryIds |-> IdleQuery]
  /\ \E dirError \in DirErrors \cup {""} :
       LET loaded == initializeDatabase(NoDb, "", <<>>, dirError) IN
       /\ db = loaded.db
       /\ dbConnectionError = loaded.dbConnectionError
       /\ connections = loaded.connections

\* dbQuery is called (the calls are numbered in the order they are made):
\* initializeDatabase when no healthy connection is held, else the first db.all
StartQuery(q, dirError) ==
  /\ queries[q].pc = "idle"
  /\ dirError # "" => connections = <<>>
  /\ \A p \in QueryIds : p < q => queries[p].pc # "idle"
  /\ IF db = NoDb \/ dbConnectionError # ""
       THEN LET init == initializeDatabase(db, dbConnectionError, connections, dirError) IN
            /\ db' = init.db
            /\ dbConnectionError' = init.dbConnectionError
            /\ connections' = init.connections
            /\ queries' =
                 [queries EXCEPT ![q] =
                    IF init.promise = "rejected"
                      THEN Reject(@, "Database initialization failed")
                      ELSE [@ EXCEPT !.pc = "init", !.waitsFor = init.opened]]
       ELSE /\ queries' = [queries EXCEPT ![q] = dbAll(@, db, "all", "")]
            /\ UNCHANGED <<db, dbConnectionError, connections>>
  /\ UNCHANGED handlerVars

\* the callback of new sqlite3.Database(dbPath, callback), and the
\* continuation of the dbQuery call that awaits this open
OpenCallback(c, err) ==
  /\ c \in DOMAIN connections
  /\ connections[c].state = "opening"
  /\ connections' = [connections EXCEPT ![c].state = IF err = "" THEN "open" ELSE "failed"]
  /\ dbConnectionError' = err
  /\ UNCHANGED db
  /\ queries' =
       [q \in QueryIds |->
          IF queries[q].waitsFor # c THEN queries[q]
          ELSE IF queries[q].pc = "init"
            THEN IF err # "" THEN Reject(queries[q], "Database initialization failed")
                 ELSE dbAll(queries[q], db, "all", "Database initialization failed")
          ELSE IF err # "" THEN Reject(queries[q], err)
               ELSE dbAll(queries[q], db, "retry", "TypeError")]
  /\ UNCHANGED handlerVars

\* the callback of db.all: the statement ran on a connection whose open has
\* completed; on a connection that failed to open it cannot succeed.  The
\* directory of the database exists once a connection has been created in it.
QueryCallback(q, err) ==
  LET query == queries[q]
      dirError == ""
  IN
  /\ query.pc \in {"all", "retry"}
  /\ connections[query.on].state # "opening"
  /\ connections[query.on].state = "failed" => err # ""
  /\ IF err = ""
       THEN /\ queries' = [queries EXCEPT ![q] = Resolve(@)]
            /\ UNCHANGED <<db, dbConnectionError, connections>>
     ELSE IF query.pc = "retry"
       THEN /\ queries' = [queries EXCEPT ![q] = Reject(@, "Database error after retry")]
            /\ UNCHANGED <<db, dbConnectionError, connections>>
     ELSE IF IsConnectionError(err)
       THEN LET broken == [connections EXCEPT ![query.on].state =
                             IF @ = "open" THEN "broken" ELSE @]
                init == initializeDatabase(NoDb, err, broken, dirError)
            IN
            /\ db' = init.db
            /\ dbConnectionError' = init.dbConnectionError
            /\ connections' = init.connections
            /\ queries' =
                 [queries EXCEPT ![q] =
                    IF init.promise = "rejected"
                      THEN Reject([@ EXCEPT !.firstError = err], dirError)
                      ELSE [@ EXCEPT !.pc = "reinit", !.firstError = err,
                                     !.waitsFor = init.opened, !.on = NoDb]]
     ELSE /\ queries' = [queries EXCEPT ![q] =
                           Reject([@ EXCEPT !.firstError = err], "Database query failed")]
          /\ UNCHANGED <<db, dbConnectionError, connections>>
  /\ UNCHANGED handlerVars

NextDb ==
  \/ \E q \in QueryIds : \E dirError \in DirErrors \cup {""} : StartQuery(q, dirError)
  \/ \E c \in ConnectionIds : \E err \in OpenErrors \cup {""} : OpenCallback(c, err)
  \/ \E q \in QueryIds : \E err \in QueryErrors \cup {""} : QueryCallback(q, err)

\* the driver eventually invokes a callback it owes
DriverCallsBack ==
  WF_vars(\/ \E c \in ConnectionIds : \E err \in OpenErrors \cup {""} : OpenCallback(c, err)
          \/ \E q \in QueryIds : \E err \in QueryErrors \cup {""} : QueryCallback(q, err))

SpecDb == InitDb /\ [][NextDb]_vars /\ DriverCallsBack

\* C33: a dbQuery call runs its statement at most twice; the second run follows
\* a re-open of the connection and happens only when the first run failed with
\* SQLITE_CANTOPEN or SQLITE_NOTADB; any other error of the first run and any
\* error of the second run rejects the call, a settled call does nothing more,
\* and when the driver invokes the callbacks it owes, every call that was
\* started is eventually resolved or rejected: from some point on no call is
\* in flight.
C33_QueryAtMostTwice ==
  /\ [](\A q \in QueryIds :
          LET query == queries[q]
              reconnects == query.firstError \in {"SQLITE_CANTOPEN", "SQLITE_NOTADB"}
          IN /\ query.attempts <= 2
             /\ query.attempts = 2 => reconnects
             /\ query.pc \in {"reinit", "retry"} => reconnects
             /\ query.pc = "retry" => query.attempts = 2
             /\ (query.pc = "rejected" /\ query.firstError # "" /\ ~reconnects)
                  => query.attempts = 1 /\ query.error = "Database query failed"
             /\ (query.pc = "rejected" /\ query.error = "Database error after retry")
                  => query.attempts = 2)
  /\ [][\A q \in QueryIds :
          /\ queries[q].pc \in Settled => queries'[q] = queries[q]
          /\ queries'[q].attempts <= queries[q].attempts + 1
          /\ (queries[q].pc = "all" /\ queries'[q].pc # "all"
                /\ queries'[q].firstError \in {"SQLITE_CANTOPEN", "SQLITE_NOTADB"})
               => /\ Len(connections') = Len(connections) + 1 \/ queries'[q].pc = "rejected"
                  /\ queries'[q].pc \in {"reinit", "rejected"}
          /\ (queries[q].pc = "reinit" /\ queries'[q].pc # "reinit")
               => queries'[q].pc \in {"retry", "rejected"}
          /\ (queries[q].pc = "retry" /\ queries'[q].pc # "retry")
               => queries'[q].pc \in Settled]_vars
  /\ <>[](\A q \in QueryIds : queries[q].pc \in Settled \cup {"idle"})

C33_Witness ==
  /\ queries[1].pc = "resolved"
  /\ queries[1].attempts = 2
  /\ queries[1].firstError = "SQLITE_NOTADB"
  /\ queries[2].pc = "rejected"
  /\ queries[2].attempts = 1
  /\ queries[2].firstError = "SQLITE_BUSY"

\* C35: in every interleaving of dbQuery calls, a new connection is opened only
\* when no open is in progress and no healthy connection exists, so at most one
\* connection is opening or open at any time.
C35_SingleConnection ==
  /\ [](Cardinality({c \in DOMAIN connections :
                       connections[c].state \in {"opening", "open"}}) <= 1)
  /\ [][Len(connections') > Len(connections)
          => \A c \in DOMAIN connections :
               connections[c].state \notin {"opening", "open"}]_vars

(***************************************************************************)
(* The counter of the authenticator data, byte by byte.  A number is kept  *)
(* as <<high, low>>, its value high * 2^16 + low with low below 2^16, so   *)
(* that every value up to 2^32 - 1 and beyond has one representation;      *)
(* parseInt of the empty string is NaN.                                    *)
(***************************************************************************)
Limb == 65536
NaN == <<>>
Zero == <<0, 0>>
MaxUint32 == <<Limb - 1, Limb - 1>>       \* 2^32 - 1

\* Buffer.prototype.toString('hex'): two hexadecimal digits per byte
toStringHex(bytes) ==
  Flatten([i \in 1..Len(bytes) |-> <<bytes[i] \div 16, bytes[i] % 16>>])

RECURSIVE parseDigits(_)
parseDigits(digits) ==
  IF digits = <<>> THEN Zero
  ELSE LET acc == parseDigits(SubSeq(digits, 1, Len(digits) - 1))
           low == acc[2] * 16 + digits[Len(digits)]
       IN <<acc[1] * 16 + low \div Limb, low % Limb>>

\* parseInt(string, 16) of a string of hexadecimal digits
parseInt(digits) ==
  IF digits = <<>> THEN NaN ELSE parseDigits(digits)

\* a <= b on numbers: false when either is NaN
LessOrEqual(a, b) ==
  /\ a # NaN
  /\ b # NaN
  /\ a[1] < b[1] \/ (a[1] = b[1] /\ a[2] <= b[2])

IsUint32(number) == number # NaN /\ number[1] < Limb /\ number[2] < Limb

\* authenticatorData.slice(33, 37) of authenticator data whose bytes from
\* offset 33 on are `tail`
sliceCounter(tail) == SubSeq(tail, 1, IF Len(tail) < 4 THEN Len(tail) ELSE 4)

\* verifyAssertion with the counter field of the authenticator data as bytes
\* (signature.ctr holds the bytes from offset 33 on)
verifyAssertionBytes(signature, clientData, keyPEM, assertionsCount, teamId, bundleIdentifier) ==
  LET clientDataHash == computeSHA256(clientDataJson(clientData))
      dataCounterHex == toStringHex(sliceCounter(signature.ctr))
      dataCounter == parseInt(dataCounterHex)
  IN
  IF signature.enc # "cbor" \/ keyPEM = NULL
    THEN [threw |-> TRUE, result |-> FALSE, counter |-> 0, reason |-> "TypeError"]
  ELSE IF ~(PemOf(signature.signer) = keyPEM /\ signature.cd = clientDataHash)
    THEN [threw |-> FALSE, result |-> FALSE, counter |-> 0, reason |-> "Invalid signature."]
  ELSE IF signature.rp # AppId(teamId, bundleIdentifier)
    THEN [threw |-> FALSE, result |-> FALSE, counter |-> 0,
          reason |-> "RP ID does not match SHA256 has of App ID"]
  ELSE IF LessOrEqual(dataCounter, assertionsCount)
    THEN [threw |-> FALSE, result |-> FALSE, counter |-> 0, reason |-> CounterReason]
  ELSE [threw |-> FALSE, result |-> TRUE, counter |-> dataCounter, reason |-> ""]

\* validateAssertion up to its UPDATE, the counters as verifyAssertionBytes
\* computes them
validateAssertionBytesRead(req, table, clock) ==
  LET call == [IdleCall EXCEPT !.op = "assert"]
      pre == AssertPrecheck(req, clock)
  IN
  IF pre # "" THEN Finish(call, Failed(pre))
  ELSE
    LET deviceId == Sanitized(req.headers, "device-id", 64, Alnum \cup {"hyphen"})
        signature == req.headers["signature"]
        keyId == Sanitized(req.headers, "key-id", 48, Base64Chars)
        assertionInputs ==
          Sanitized(req.headers, "assertion-inputs", 500,
                    {"lower", "digit", "hyphen", "semicolon"})
        keyQuery == SelectByKeyAndDevice(table, keyId, deviceId)
        here == [call EXCEPT !.deviceId = deviceId, !.keyId = keyId]
    IN
    IF keyQuery = <<>> THEN Finish(here, Failed("nokey"))
    ELSE
      LET clientData == BuildClientData(req.headers, assertionInputs)
          publicKey == keyQuery[1].publicKey
          assertionsCount == keyQuery[1].counter
          assertionResult ==
            verifyAssertionBytes(signature, clientData, publicKey, assertionsCount,
                                 req.teamId, req.bundleIdentifier)
          checked == [here EXCEPT !.assertionsCount = assertionsCount,
                                  !.verified = TRUE,
                                  !.reason = assertionResult.reason]
      IN
      IF assertionResult.threw THEN Finish(checked, catchError(Thrown("TypeError")))
      ELSE IF ~assertionResult.result THEN Finish(checked, VerifyFailure(assertionResult))
      ELSE [checked EXCEPT !.pc = "update", !.req = req,
                           !.newCounter = assertionResult.counter]

\* counter fields an authenticator can have signed
CounterFields ==
  {<<0, 0, 0, 0>>, <<0, 0, 0, 1>>, <<0, 0, 1, 0>>, <<0, 1, 0, 0>>, <<128, 0, 0, 0>>,
   <<255, 255, 255, 254>>, <<255, 255, 255, 255>>}

CounterAssert(k, field, clock) ==
  AssertRequest(AssertHeaders(DeviceA, KeyIdOf(k),
                  [Envelope(k, 0, AppId(TeamId, BundleId), HonestClientData)
                     EXCEPT !.ctr = field],
                  TimestampNonce(clock)))

\* device-A has registered k1: the row a getNonce and a registerAttestation leave
InitCounter ==
  /\ store = <<[NewRow(DeviceA, 1) EXCEPT !.keyId = KeyIdOf("k1"),
                                          !.publicKey = PemOf("k1"),
                                          !.counter = Zero]>>
  /\ calls = [c \in Slots |-> IdleCall]
  /\ ret = IdleCall
  /\ now = Now0
  /\ nextNonce = 2
  /\ used = {1}
  /\ captured = {}
  /\ args = NoCall
  /\ out = NoCall
  /\ DbUnused

VA_ReadBytes(c, req) ==
  /\ CanStart(c)
  /\ Proceed(c, validateAssertionBytesRead(req, store, now))
  /\ UNCHANGED <<store, now, nextNonce, used, captured, args, out, dbVars>>

\* interleaved validateAssertion calls for the key of device-A (and one for a
\* key it has not registered)
NextCounter ==
  \/ \E c \in Slots : \E field \in CounterFields :
       VA_ReadBytes(c, CounterAssert("k1", field, now))
  \/ \E c \in Slots : VA_ReadBytes(c, CounterAssert("k2", <<0, 0, 0, 1>>, now))
  \/ \E c \in Slots : VA_Write(c)

SpecCounter == InitCounter /\ [][NextCounter]_vars

\* C34: the counter parsed from the authenticator data is the unsigned 32-bit
\* value its four bytes spell, in 0..2^32-1 and never wrapped, the stored counter
\* stays in that range, and while the row of a key holds 2^32-1 no assertion for
\* that key is accepted.
C34_CounterIsUint32 ==
  /\ [](/\ \A i \in Rows(store) : IsUint32(store[i].counter)
        /\ \A c \in Slots :
             calls[c].pc = "update" =>
               LET field == calls[c].req.headers["signature"].ctr IN
               /\ IsUint32(calls[c].newCounter)
               /\ calls[c].newCounter[1] = field[1] * 256 + field[2]
               /\ calls[c].newCounter[2] = field[3] * 256 + field[4])
  /\ [][(\E i \in Rows(store) :
           store[i].keyId = ret'.keyId /\ store[i].counter = MaxUint32)
          => ~Accepted(ret')]_vars

====
